---- MODULE Spec2Model ----
(***************************************************************************)
(* Model of the chapter recognition and rewrite pipeline of                *)
(* MKVChaptersInfoRecognition (auto_rename_mkv_chapters.py).               *)
(*                                                                         *)
(* Text is modelled as a sequence of symbols.  A symbol is a one-character *)
(* string, except that a markup tag such as "<ChapterUID>" is one symbol:  *)
(* the code only ever searches for whole tags, so a text that contains the *)
(* characters of a tag is a text that contains that symbol.                *)
(* An optional value (Python's None) is the empty tuple, a present value s *)
(* is the one-element tuple <<s>>.                                         *)
(***************************************************************************)
EXTENDS Integers, Sequences, FiniteSets, TLC

VARIABLES
    \* ---- codec specification (SpecCodec) ----
    cpc,          \* position in the codec experiment
    cs,           \* the chapter sequence given as input
    xml_content,  \* result of _generate_chapter_xml
    decoded,      \* result of _parse_chapter_xml
    backup_text,  \* text json.dump wrote to the sidecar
    restored,     \* chapters restore_from_backup rebuilt from backup_text
    restore_doc,  \* the chapter file restore_from_backup hands to mkvpropedit
    \* ---- sampling specification (SpecSample) ----
    spc,          \* position in the sampling experiment
    sample_in,    \* the RecognitionConfig and the chapter bounds given
    sample_time,  \* result of calculate_sample_time
    \* ---- pipeline specification (Spec, SpecRestore) ----
    container,     \* the chapters stored in the MKV file
    sidecar,       \* the .chapters.backup.json file: None, or Some(its text)
    pc,            \* position of the running operation, "idle" between operations
    op,            \* the operation that runs or has just ended: "process", "restore"
    backup,        \* process(backup=...)
    template,      \* self.template.template
    config,        \* self.recognition_config
    chapters,      \* the in-memory chapter list of the operation
    idx,           \* the chapter the loop of process is at, counted from 1
    updated_count, \* updated_count of process
    result,        \* how the operation ended: "" while it runs, else the outcome
                   \* or the name of the exception that left it
    \* history of the operation, kept to state the properties
    extracted,     \* the chapters as extract_chapters returned them
    outcome,       \* per chapter attempted: what extraction and recognition gave
    sample_start,  \* the last value calculate_sample_time returned
    tool_calls,    \* invocations of mkvpropedit by the operation
    written,       \* the chapter list handed to update_chapters, if any
    \* history of the container
    original,      \* the chapters of the container before the first operation
    runs,          \* operations started so far
    backups,       \* sidecar writes completed so far
    \* ---- audio specification (SpecAudio) ----
    apc,           \* position in the audio extraction experiment
    audio_call,    \* the call of extract_audio_sample: its inputs and results
    \* ---- template specification (SpecTemplate) ----
    tpc,          \* position in the template experiment
    format_call,  \* the call of ChapterTemplate.format: the template, the song, the result
    \* ---- batch specification (SpecBatch) ----
    bpc,         \* position of process_directory: "idle" between runs
    batch_cfg,   \* the BatchProcessor: skip_existing, max_workers
    sidecars,    \* the containers whose .chapters.backup.json exists
    mkv_files,   \* the containers find_mkv_files returned
    waiting,     \* files_to_process not yet started, in order
    inflight,    \* the containers a pool thread is working on
    completed,   \* results of finished futures not yet collected
    stats,       \* self.stats
    attempts,    \* history: the calls of process_single_file of this run
    batch_runs,  \* runs of process_directory started so far
    \* ---- external call specification (SpecCalls) ----
    kpc,       \* position of the chapter loop: "loop", the call in flight, "done"
    call_cfg,  \* who runs the loop (process or the RecognitionWorker), number of chapters
    ki,        \* the chapter the loop is at, counted from 1
    hung,      \* the call in flight never returns
    marks,     \* per chapter handled: "recognized" or "unrecognized"
    \* ---- cancellation specification (SpecCancel) ----
    wpc,           \* position of the thread that runs the chapter loop
    run_cfg,       \* the run: by the RecognitionWorker ("gui") or by main ("cli"), number of chapters
    wi,            \* the chapter the loop is at, counted from 1
    is_running,    \* RecognitionWorker.is_running
    cancelled,     \* the user has cancelled the run
    begun,         \* the chapters whose iteration has begun
    updated,       \* chapters recognized so far
    finished_all,  \* the signal finished_all was emitted
    writes,        \* update_chapters calls of the run
    \* ---- decode specification (SpecDecode) ----
    dpc,             \* position: "input", "extracted", "done"
    document,        \* the chapter document mkvextract left in the temporary file
    extract_rc,      \* exit code of mkvextract
    extract_result,  \* what extract_chapters returned or raised
    run_result,      \* how process went on after extract_chapters
    \* ---- configuration specification (SpecMerge) ----
    mpc,            \* position: "input", "merged"
    cli_given,      \* per option: None, or Some(the value given on the command line)
    file_config,    \* per key of the configuration file: None, or Some(its value)
    merged_config,  \* result of merge_config_with_args
    used_template,  \* the template main builds the ChapterTemplate from
    \* ---- entry point specification (SpecMain) ----
    epc,        \* position of main: "start", "restore", "normal", "exited"
    main_in,    \* the options given, what the tool search finds, how the operation ends
    exit_code,  \* exit code of the interpreter, -1 while main runs
    \* ---- temporary chapter file specification (SpecTemp) ----
    fpc,         \* position of the operation that uses a temporary chapter file
    temp_call,   \* the operation (extract, update, restore) and its number of chapters
    temp_file,   \* the temporary chapter file exists
    temp_lines,  \* chapters written to the file so far by restore_from_backup
    temp_made,   \* the operation has created the temporary file
    temp_exc,    \* the exception on its way out of the operation, "" for none
    \* ---- batch log specification (SpecLog) ----
    lpc,          \* position of process_directory in its pool branch
    log_cfg,      \* the containers to process and max_workers
    log_waiting,  \* containers submitted to the pool and not yet taken by a thread
    log_threads,  \* per container in a pool thread: its logger calls still to make
    log           \* the records the logging handlers have emitted, in order

cvars == <<cpc, cs, xml_content, decoded, backup_text, restored,
           restore_doc>>

svars == <<spc, sample_in, sample_time>>

pvars == <<container, sidecar, pc, op, backup, template, config, chapters,
           idx, updated_count, result, extracted, outcome, sample_start,
           tool_calls, written, original, runs, backups>>

avars == <<apc, audio_call>>

tvars == <<tpc, format_call>>

bvars == <<bpc, batch_cfg, sidecars, mkv_files, waiting, inflight,
           completed, stats, attempts, batch_runs>>

kvars == <<kpc, call_cfg, ki, hung, marks>>

wvars == <<wpc, run_cfg, wi, is_running, cancelled, begun, updated,
           finished_all, writes>>

dvars == <<dpc, document, extract_rc, extract_result, run_result>>

mvars == <<mpc, cli_given, file_config, merged_config, used_template>>

evars == <<epc, main_in, exit_code>>

fvars == <<fpc, temp_call, temp_file, temp_lines, temp_made, temp_exc>>

lvars == <<lpc, log_cfg, log_waiting, log_threads, log>>

vars == <<cpc, cs, xml_content, decoded, backup_text, restored, restore_doc,
          spc, sample_in, sample_time,
          container, sidecar, pc, op, backup, template, config,
          chapters, idx, updated_count, result, extracted, outcome, sample_start,
          tool_calls, written, original, runs, backups,
          apc, audio_call,
          tpc, format_call,
          bpc, batch_cfg, sidecars, mkv_files, waiting, inflight, completed,
          stats, attempts, batch_runs,
          kpc, call_cfg, ki, hung, marks,
          wpc, run_cfg, wi, is_running, cancelled, begun, updated,
          finished_all, writes,
          dpc, document, extract_rc, extract_result, run_result,
          mpc, cli_given, file_config, merged_config, used_template,
          epc, main_in, exit_code,
          fpc, temp_call, temp_file, temp_lines, temp_made, temp_exc,
          lpc, log_cfg, log_waiting, log_threads, log>>

(***************************************************************************)
(* Each specification uses its own variables; the others stay as they are  *)
(* set here.                                                               *)
(***************************************************************************)
CodecOff ==
    /\ cpc = "off" /\ cs = << >> /\ xml_content = << >> /\ decoded = << >>
    /\ backup_text = << >> /\ restored = << >> /\ restore_doc = << >>

SampleOff == spc = "off" /\ sample_in = << >> /\ sample_time = 0

PipelineOff ==
    /\ container = << >> /\ sidecar = << >> /\ pc = "off" /\ op = ""
    /\ backup = FALSE /\ template = << >> /\ config = << >> /\ chapters = << >>
    /\ idx = 0 /\ updated_count = 0 /\ result = "" /\ extracted = << >>
    /\ outcome = << >> /\ sample_start = 0 /\ tool_calls = 0 /\ written = << >>
    /\ original = << >> /\ runs = 0 /\ backups = 0

AudioOff == apc = "off" /\ audio_call = << >>

TemplateOff == tpc = "off" /\ format_call = << >>

BatchOff ==
    /\ bpc = "off" /\ batch_cfg = << >> /\ sidecars = {} /\ mkv_files = << >>
    /\ waiting = << >> /\ inflight = {} /\ completed = << >> /\ stats = << >>
    /\ attempts = << >> /\ batch_runs = 0

CallsOff ==
    /\ kpc = "off" /\ call_cfg = << >> /\ ki = 0 /\ hung = FALSE /\ marks = << >>

CancelOff ==
    /\ wpc = "off" /\ run_cfg = << >> /\ wi = 0 /\ is_running = FALSE
    /\ cancelled = FALSE /\ begun = {} /\ updated = 0 /\ finished_all = FALSE
    /\ writes = 0

DecodeOff ==
    /\ dpc = "off" /\ document = << >> /\ extract_rc = 0
    /\ extract_result = << >> /\ run_result = ""

MergeOff ==
    /\ mpc = "off" /\ cli_given = << >> /\ file_config = << >>
    /\ merged_config = << >> /\ used_template = << >>

MainOff == epc = "off" /\ main_in = << >> /\ exit_code = 0

TempOff ==
    /\ fpc = "off" /\ temp_call = << >> /\ temp_file = FALSE /\ temp_lines = 0
    /\ temp_made = FALSE /\ temp_exc = ""

LogOff ==
    /\ lpc = "off" /\ log_cfg = << >> /\ log_waiting = << >> /\ log_threads = << >>
    /\ log = << >>

OffButCodec ==
    /\ SampleOff
    /\ PipelineOff
    /\ AudioOff
    /\ TemplateOff
    /\ BatchOff
    /\ CallsOff
    /\ CancelOff
    /\ DecodeOff
    /\ MergeOff
    /\ MainOff
    /\ TempOff
    /\ LogOff

OffButSample ==
    /\ CodecOff
    /\ PipelineOff
    /\ AudioOff
    /\ TemplateOff
    /\ BatchOff
    /\ CallsOff
    /\ CancelOff
    /\ DecodeOff
    /\ MergeOff
    /\ MainOff
    /\ TempOff
    /\ LogOff

OffButPipeline ==
    /\ CodecOff
    /\ SampleOff
    /\ AudioOff
    /\ TemplateOff
    /\ BatchOff
    /\ CallsOff
    /\ CancelOff
    /\ DecodeOff
    /\ MergeOff
    /\ MainOff
    /\ TempOff
    /\ LogOff

OffButAudio ==
    /\ CodecOff
    /\ SampleOff
    /\ PipelineOff
    /\ TemplateOff
    /\ BatchOff
    /\ CallsOff
    /\ CancelOff
    /\ DecodeOff
    /\ MergeOff
    /\ MainOff
    /\ TempOff
    /\ LogOff

OffButTemplate ==
    /\ CodecOff
    /\ SampleOff
    /\ PipelineOff
    /\ AudioOff
    /\ BatchOff
    /\ CallsOff
    /\ CancelOff
    /\ DecodeOff
    /\ MergeOff
    /\ MainOff
    /\ TempOff
    /\ LogOff

OffButBatch ==
    /\ CodecOff
    /\ SampleOff
    /\ PipelineOff
    /\ AudioOff
    /\ TemplateOff
    /\ CallsOff
    /\ CancelOff
    /\ DecodeOff
    /\ MergeOff
    /\ MainOff
    /\ TempOff
    /\ LogOff

OffButCalls ==
    /\ CodecOff
    /\ SampleOff
    /\ PipelineOff
    /\ AudioOff
    /\ TemplateOff
    /\ BatchOff
    /\ CancelOff
    /\ DecodeOff
    /\ MergeOff
    /\ MainOff
    /\ TempOff
    /\ LogOff

OffButCancel ==
    /\ CodecOff
    /\ SampleOff
    /\ PipelineOff
    /\ AudioOff
    /\ TemplateOff
    /\ BatchOff
    /\ CallsOff
    /\ DecodeOff
    /\ MergeOff
    /\ MainOff
    /\ TempOff
    /\ LogOff

OffButDecode ==
    /\ CodecOff
    /\ SampleOff
    /\ PipelineOff
    /\ AudioOff
    /\ TemplateOff
    /\ BatchOff
    /\ CallsOff
    /\ CancelOff
    /\ MergeOff
    /\ MainOff
    /\ TempOff
    /\ LogOff

OffButMerge ==
    /\ CodecOff
    /\ SampleOff
    /\ PipelineOff
    /\ AudioOff
    /\ TemplateOff
    /\ BatchOff
    /\ CallsOff
    /\ CancelOff
    /\ DecodeOff
    /\ MainOff
    /\ TempOff
    /\ LogOff

OffButMain ==
    /\ CodecOff
    /\ SampleOff
    /\ PipelineOff
    /\ AudioOff
    /\ TemplateOff
    /\ BatchOff
    /\ CallsOff
    /\ CancelOff
    /\ DecodeOff
    /\ MergeOff
    /\ TempOff
    /\ LogOff

OffButTemp ==
    /\ CodecOff
    /\ SampleOff
    /\ PipelineOff
    /\ AudioOff
    /\ TemplateOff
    /\ BatchOff
    /\ CallsOff
    /\ CancelOff
    /\ DecodeOff
    /\ MergeOff
    /\ MainOff
    /\ LogOff

OffButLog ==
    /\ CodecOff
    /\ SampleOff
    /\ PipelineOff
    /\ AudioOff
    /\ TemplateOff
    /\ BatchOff
    /\ CallsOff
    /\ CancelOff
    /\ DecodeOff
    /\ MergeOff
    /\ MainOff
    /\ TempOff

exceptCodec == <<svars, pvars, avars, tvars, bvars, kvars, wvars, dvars, mvars, evars, fvars, lvars>>

exceptSample == <<cvars, pvars, avars, tvars, bvars, kvars, wvars, dvars, mvars, evars, fvars, lvars>>

exceptPipeline == <<cvars, svars, avars, tvars, bvars, kvars, wvars, dvars, mvars, evars, fvars, lvars>>

exceptAudio == <<cvars, svars, pvars, tvars, bvars, kvars, wvars, dvars, mvars, evars, fvars, lvars>>

exceptTemplate == <<cvars, svars, pvars, avars, bvars, kvars, wvars, dvars, mvars, evars, fvars, lvars>>

exceptBatch == <<cvars, svars, pvars, avars, tvars, kvars, wvars, dvars, mvars, evars, fvars, lvars>>

exceptCalls == <<cvars, svars, pvars, avars, tvars, bvars, wvars, dvars, mvars, evars, fvars, lvars>>

exceptCancel == <<cvars, svars, pvars, avars, tvars, bvars, kvars, dvars, mvars, evars, fvars, lvars>>

exceptDecode == <<cvars, svars, pvars, avars, tvars, bvars, kvars, wvars, mvars, evars, fvars, lvars>>

exceptMerge == <<cvars, svars, pvars, avars, tvars, bvars, kvars, wvars, dvars, evars, fvars, lvars>>

exceptMain == <<cvars, svars, pvars, avars, tvars, bvars, kvars, wvars, dvars, mvars, fvars, lvars>>

exceptTemp == <<cvars, svars, pvars, avars, tvars, bvars, kvars, wvars, dvars, mvars, evars, lvars>>

exceptLog == <<cvars, svars, pvars, avars, tvars, bvars, kvars, wvars, dvars, mvars, evars, fvars>>

(***************************************************************************)
(* Bounds of the model.                                                    *)
(***************************************************************************)
MaxCodecChapters == 2

\* chapters written to a temporary chapter file
MaxTempChapters == 3

\* containers handed to the pool in the batch log specification
MaxLogFiles == 3

\* the largest max_workers of the batch log specification
MaxLogWorkers == 2

MaxChapters == 2

MaxRuns == 2

(***************************************************************************)
(* Generic helpers on symbol sequences.                                    *)
(***************************************************************************)
None == << >>

Some(x) == <<x>>

\* least index i >= from with s[i] = sym, 0 when there is none
Find(s, sym, from) ==
    LET hits == {i \in from..Len(s) : s[i] = sym}
    IN  IF hits = {} THEN 0 ELSE CHOOSE i \in hits : \A j \in hits : i <= j

Contains(s, sym) == \E i \in 1..Len(s) : s[i] = sym

RECURSIVE Join(_, _)
\* sep.join(parts)
Join(parts, sep) ==
    IF parts = << >> THEN << >>
    ELSE IF Len(parts) = 1 THEN parts[1]
    ELSE parts[1] \o sep \o Join(Tail(parts), sep)

\* text.split(sep) for a one-symbol separator: the sequence of pieces
RECURSIVE Split(_, _)
Split(s, sep) ==
    LET k == Find(s, sep, 1)
    IN  IF k = 0 THEN <<s>>
        ELSE <<SubSeq(s, 1, k - 1)>> \o Split(SubSeq(s, k + 1, Len(s)), sep)

(***************************************************************************)
(* MKVChapter                                                              *)
(***************************************************************************)
MKVChapter(uid, start_time, end_time, title) ==
    [uid |-> uid, start_time |-> start_time, end_time |-> end_time, title |-> title]

(***************************************************************************)
(* MKVChapterManager._generate_chapter_xml                                 *)
(***************************************************************************)
NL == <<"\n">>

Indent(n) == [i \in 1..n |-> "  "]

ChapterAtomLines(chapter) ==
    << Indent(2) \o <<"<ChapterAtom>">>,
       Indent(3) \o <<"<ChapterUID>">> \o chapter.uid \o <<"</ChapterUID>">>,
       Indent(3) \o <<"<ChapterTimeStart>">> \o chapter.start_time
                 \o <<"</ChapterTimeStart>">> >>
    \o (IF chapter.end_time # None /\ chapter.end_time[1] # << >>
        THEN << Indent(3) \o <<"<ChapterTimeEnd>">> \o chapter.end_time[1]
                          \o <<"</ChapterTimeEnd>">> >>
        ELSE << >>)
    \o << Indent(3) \o <<"<ChapterDisplay>">>,
          Indent(4) \o <<"<ChapterString>">> \o chapter.title
                    \o <<"</ChapterString>">>,
          Indent(4) \o <<"<ChapterLanguage>", "u", "n", "d", "</ChapterLanguage>">>,
          Indent(3) \o <<"</ChapterDisplay>">>,
          Indent(2) \o <<"</ChapterAtom>">> >>

RECURSIVE AllAtomLines(_)
AllAtomLines(chs) ==
    IF chs = << >> THEN << >>
    ELSE ChapterAtomLines(Head(chs)) \o AllAtomLines(Tail(chs))

GenerateChapterXml(chs) ==
    Join(<< <<"<?xml version=\"1.0\" encoding=\"UTF-8\"?>">>,
            <<"<!DOCTYPE Chapters SYSTEM \"matroskachapters.dtd\">">>,
            <<"<Chapters>">>,
            Indent(1) \o <<"<EditionEntry>">> >>
         \o AllAtomLines(chs)
         \o << Indent(1) \o <<"</EditionEntry>">>,
               <<"</Chapters>">> >>,
         NL)

(***************************************************************************)
(* MKVChapterManager._parse_chapter_xml                                    *)
(*                                                                         *)
(* The pattern is a chain of lazy gaps (.*?) and literal tags.  Where a    *)
(* match exists from a given <ChapterAtom>, every later tag it uses lies   *)
(* after the first occurrence of the tag before it, so the leftmost lazy   *)
(* match takes the first occurrence of each tag in turn; the optional      *)
(* <ChapterTimeEnd> group is entered at the first position, after the      *)
(* start time, where either the group or <ChapterDisplay> can complete.    *)
(***************************************************************************)
\* can "<ChapterDisplay>.*?<ChapterString>(.*?)</ChapterString>" match at d
DisplayCompletes(doc, d) ==
    /\ d # 0
    /\ LET s1 == Find(doc, "<ChapterString>", d + 1)
       IN  s1 # 0 /\ Find(doc, "</ChapterString>", s1 + 1) # 0

\* can the optional group, entered at te, be followed by the rest
TimeEndCompletes(doc, te) ==
    /\ te # 0
    /\ LET p6 == Find(doc, "</ChapterTimeEnd>", te + 1)
       IN  p6 # 0 /\ DisplayCompletes(doc, Find(doc, "<ChapterDisplay>", p6 + 1))

NoMatch == [found |-> FALSE]

\* least index after p holding sym; 0 when there is none or p is already 0
FindAfter(doc, sym, p) == IF p = 0 THEN 0 ELSE Find(doc, sym, p + 1)

\* the groups of a match, given the tags of its head and which branch of
\* the optional group the match takes
ChapterPatternGroups(doc, p1, p2, p3, p4, te, d0, teOk, d0Ok) ==
    LET useEnd == teOk /\ (~d0Ok \/ te < d0)
        p6 == IF useEnd THEN Find(doc, "</ChapterTimeEnd>", te + 1) ELSE 0
        d  == IF useEnd THEN Find(doc, "<ChapterDisplay>", p6 + 1) ELSE d0
        s1 == FindAfter(doc, "<ChapterString>", d)
        s2 == FindAfter(doc, "</ChapterString>", s1)
    IN  IF p4 = 0 \/ ~(teOk \/ d0Ok) THEN NoMatch
        ELSE [found |-> TRUE,
              g1 |-> SubSeq(doc, p1 + 1, p2 - 1),
              g2 |-> SubSeq(doc, p3 + 1, p4 - 1),
              g3 |-> IF useEnd THEN Some(SubSeq(doc, te + 1, p6 - 1)) ELSE None,
              g4 |-> SubSeq(doc, s1 + 1, s2 - 1),
              end |-> s2]

\* the part of the pattern after </ChapterTimeStart>
ChapterPatternTail(doc, p1, p2, p3, p4) ==
    LET te == FindAfter(doc, "<ChapterTimeEnd>", p4)
        d0 == FindAfter(doc, "<ChapterDisplay>", p4)
    IN  ChapterPatternGroups(doc, p1, p2, p3, p4, te, d0,
                             TimeEndCompletes(doc, te), DisplayCompletes(doc, d0))

\* chapter_pattern searched in doc from index from (one step of finditer)
ChapterPatternSearch(doc, from) ==
    LET a  == Find(doc, "<ChapterAtom>", from)
        p1 == FindAfter(doc, "<ChapterUID>", a)
        p2 == FindAfter(doc, "</ChapterUID>", p1)
        p3 == FindAfter(doc, "<ChapterTimeStart>", p2)
        p4 == FindAfter(doc, "</ChapterTimeStart>", p3)
    IN  ChapterPatternTail(doc, p1, p2, p3, p4)

\* "keep 3 decimal places": split on '.', cut parts[1] to three characters
CleanTime(time_str) ==
    IF Contains(time_str, ".")
    THEN LET parts == Split(time_str, ".")
         IN  IF Len(parts[2]) > 3
             THEN parts[1] \o <<".">> \o SubSeq(parts[2], 1, 3)
             ELSE time_str
    ELSE time_str

RECURSIVE ParseFrom(_, _)
ParseFrom(doc, from) ==
    LET m == ChapterPatternSearch(doc, from)
    IN  IF ~m.found THEN << >>
        ELSE LET \* match.group(3) if match.group(3) else None
                 end_time == IF m.g3 # None /\ m.g3[1] # << >> THEN m.g3 ELSE None
             IN  << MKVChapter(m.g1,
                               CleanTime(m.g2),
                               IF end_time # None
                               THEN Some(CleanTime(end_time[1])) ELSE None,
                               m.g4) >>
                 \o ParseFrom(doc, m.end + 1)

ParseChapterXml(xml) == ParseFrom(xml, 1)

(***************************************************************************)
(* Python values as json.dump writes and json.load returns them.           *)
(***************************************************************************)
PyNone == [t |-> "none"]

PyStr(s) == [t |-> "str", v |-> s]

PyInt(digits) == [t |-> "int", v |-> digits]

PyBool(b) == [t |-> "bool", v |-> b]

PyList(items) == [t |-> "list", v |-> items]

\* a dict is the sequence of its <<key, value>> items, in insertion order
PyDict(items) == [t |-> "dict", v |-> items]

\* an optional string field of a chapter as a Python value
PyOpt(o) == IF o = None THEN PyNone ELSE PyStr(o[1])

\* bool(value): the values `if not chapters_data` lets through
Truthy(x) ==
    CASE x.t = "none" -> FALSE
      [] x.t = "bool" -> x.v
      [] x.t = "int"  -> \E i \in 1..Len(x.v) : x.v[i] # "0"
      [] OTHER        -> x.v # << >>

HasKey(d, key) == \E i \in 1..Len(d.v) : d.v[i][1] = key

\* d[key] for a key the dict has: the last item with that key
DictGet(d, key) ==
    LET at == {i \in 1..Len(d.v) : d.v[i][1] = key}
    IN  d.v[CHOOSE i \in at : \A j \in at : j <= i][2]

K_uid == <<"u","i","d">>

K_start_time == <<"s","t","a","r","t","_","t","i","m","e">>

K_end_time == <<"e","n","d","_","t","i","m","e">>

K_title == <<"t","i","t","l","e">>

(***************************************************************************)
(* json.dump(chapters_data, f, ensure_ascii=False, indent=2)               *)
(***************************************************************************)
RECURSIVE JsonEscape(_)
JsonEscape(s) ==
    IF s = << >> THEN << >>
    ELSE LET c == Head(s)
         IN  (CASE c = "\"" -> <<"\\", "\"">>
                [] c = "\\" -> <<"\\", "\\">>
                [] c = "\n" -> <<"\\", "n">>
                [] c = "\r" -> <<"\\", "r">>
                [] c = "\t" -> <<"\\", "t">>
                [] OTHER    -> <<c>>) \o JsonEscape(Tail(s))

JsonString(s) == <<"\"">> \o JsonEscape(s) \o <<"\"">>

JsonIndent(level) == [i \in 1..(2 * level) |-> " "]

RECURSIVE JsonDumpAt(_, _)
RECURSIVE JsonDumpItems(_, _, _)
JsonDumpItems(items, level, isDict) ==
    LET one(it) == IF isDict
                   THEN JsonString(it[1]) \o <<":", " ">> \o JsonDumpAt(it[2], level)
                   ELSE JsonDumpAt(it, level)
    IN  IF Len(items) = 1 THEN one(items[1])
        ELSE one(items[1]) \o <<",">> \o NL \o JsonIndent(level)
             \o JsonDumpItems(Tail(items), level, isDict)

JsonDumpAt(x, level) ==
    CASE x.t = "none" -> <<"n","u","l","l">>
      [] x.t = "bool" -> IF x.v THEN <<"t","r","u","e">> ELSE <<"f","a","l","s","e">>
      [] x.t = "int"  -> x.v
      [] x.t = "str"  -> JsonString(x.v)
      [] x.t = "list" ->
            IF x.v = << >> THEN <<"[", "]">>
            ELSE <<"[">> \o NL \o JsonIndent(level + 1)
                 \o JsonDumpItems(x.v, level + 1, FALSE)
                 \o NL \o JsonIndent(level) \o <<"]">>
      [] x.t = "dict" ->
            IF x.v = << >> THEN <<"{", "}">>
            ELSE <<"{">> \o NL \o JsonIndent(level + 1)
                 \o JsonDumpItems(x.v, level + 1, TRUE)
                 \o NL \o JsonIndent(level) \o <<"}">>

JsonDump(x) == JsonDumpAt(x, 0)

(***************************************************************************)
(* json.load: the decoder of the standard library, for the values above.   *)
(* A failure ([ok |-> FALSE]) is json.JSONDecodeError.                     *)
(***************************************************************************)
JsonFail == [ok |-> FALSE]

JsonWs == {" ", "\t", "\n", "\r"}

JsonDigits == {"0","1","2","3","4","5","6","7","8","9"}

\* least index >= i holding no whitespace (Len + 1 at the end of the text)
SkipWs(txt, i) ==
    LET rest == {j \in i..Len(txt) : txt[j] \notin JsonWs}
    IN  IF rest = {} THEN Len(txt) + 1 ELSE CHOOSE j \in rest : \A k \in rest : j <= k

\* index after the run of digits that starts at i
DigitsEnd(txt, i) ==
    LET rest == {j \in i..Len(txt) : txt[j] \notin JsonDigits}
    IN  IF rest = {} THEN Len(txt) + 1 ELSE CHOOSE j \in rest : \A k \in rest : j <= k

IsWord(txt, i, w) == i + Len(w) - 1 <= Len(txt) /\ SubSeq(txt, i, i + Len(w) - 1) = w

RECURSIVE JsonScanString(_, _, _)
\* the string body from i (after the opening quote), acc the characters so far
JsonScanString(txt, i, acc) ==
    IF i > Len(txt) THEN JsonFail
    ELSE LET c == txt[i]
         IN  IF c = "\"" THEN [ok |-> TRUE, v |-> PyStr(acc), i |-> i + 1]
             ELSE IF c = "\\"
             THEN IF i + 1 > Len(txt) THEN JsonFail
                  ELSE LET e == txt[i + 1]
                       IN  IF e \in {"\"", "\\", "/"}
                           THEN JsonScanString(txt, i + 2, Append(acc, e))
                           ELSE IF e = "n" THEN JsonScanString(txt, i + 2, Append(acc, "\n"))
                           ELSE IF e = "r" THEN JsonScanString(txt, i + 2, Append(acc, "\r"))
                           ELSE IF e = "t" THEN JsonScanString(txt, i + 2, Append(acc, "\t"))
                           ELSE JsonFail
             \* strict mode: a raw control character ends the decoding
             ELSE IF c \in {"\n", "\r", "\t"} THEN JsonFail
             ELSE JsonScanString(txt, i + 1, Append(acc, c))

RECURSIVE JsonScanValue(_, _)
RECURSIVE JsonScanArray(_, _, _)
RECURSIVE JsonScanObject(_, _, _)
\* the items of an array, the next value expected at i
JsonScanArray(txt, i, acc) ==
    LET r == JsonScanValue(txt, i)
    IN  IF ~r.ok THEN JsonFail
        ELSE LET j == SkipWs(txt, r.i)
             IN  IF j > Len(txt) THEN JsonFail
                 ELSE IF txt[j] = "]"
                 THEN [ok |-> TRUE, v |-> PyList(Append(acc, r.v)), i |-> j + 1]
                 ELSE IF txt[j] = ","
                 THEN JsonScanArray(txt, SkipWs(txt, j + 1), Append(acc, r.v))
                 ELSE JsonFail

\* the members of an object, the next key's opening quote expected at i
JsonScanObject(txt, i, acc) ==
    IF i > Len(txt) \/ txt[i] # "\"" THEN JsonFail
    ELSE LET k == JsonScanString(txt, i + 1, << >>)
         IN  IF ~k.ok THEN JsonFail
             ELSE LET c == SkipWs(txt, k.i)
                  IN  IF c > Len(txt) \/ txt[c] # ":" THEN JsonFail
                      ELSE LET r == JsonScanValue(txt, SkipWs(txt, c + 1))
                           IN  IF ~r.ok THEN JsonFail
                               ELSE LET j     == SkipWs(txt, r.i)
                                        items == Append(acc, <<k.v.v, r.v>>)
                                    IN  IF j > Len(txt) THEN JsonFail
                                        ELSE IF txt[j] = "}"
                                        THEN [ok |-> TRUE, v |-> PyDict(items), i |-> j + 1]
                                        ELSE IF txt[j] = ","
                                        THEN JsonScanObject(txt, SkipWs(txt, j + 1), items)
                                        ELSE JsonFail

JsonScanValue(txt, i) ==
    IF i > Len(txt) THEN JsonFail
    ELSE LET c == txt[i]
         IN  IF c = "\"" THEN JsonScanString(txt, i + 1, << >>)
             ELSE IF c = "[" 
             THEN LET j == SkipWs(txt, i + 1)
                  IN  IF j <= Len(txt) /\ txt[j] = "]"
                      THEN [ok |-> TRUE, v |-> PyList(<< >>), i |-> j + 1]
                      ELSE JsonScanArray(txt, j, << >>)
             ELSE IF c = "{"
             THEN LET j == SkipWs(txt, i + 1)
                  IN  IF j <= Len(txt) /\ txt[j] = "}"
                      THEN [ok |-> TRUE, v |-> PyDict(<< >>), i |-> j + 1]
                      ELSE JsonScanObject(txt, j, << >>)
             ELSE IF IsWord(txt, i, <<"n","u","l","l">>)
             THEN [ok |-> TRUE, v |-> PyNone, i |-> i + 4]
             ELSE IF IsWord(txt, i, <<"t","r","u","e">>)
             THEN [ok |-> TRUE, v |-> PyBool(TRUE), i |-> i + 4]
             ELSE IF IsWord(txt, i, <<"f","a","l","s","e">>)
             THEN [ok |-> TRUE, v |-> PyBool(FALSE), i |-> i + 5]
             ELSE IF c \in JsonDigits
             THEN LET j == DigitsEnd(txt, i)
                  IN  \* a number may not start with a superfluous zero
                      IF c = "0" /\ j > i + 1
                      THEN [ok |-> TRUE, v |-> PyInt(<<"0">>), i |-> i + 1]
                      ELSE [ok |-> TRUE, v |-> PyInt(SubSeq(txt, i, j - 1)), i |-> j]
             ELSE JsonFail

\* json.load(f): one value, white space around it, and nothing after it
JsonLoad(txt) ==
    LET r == JsonScanValue(txt, SkipWs(txt, 1))
    IN  IF ~r.ok THEN JsonFail
        ELSE IF SkipWs(txt, r.i) <= Len(txt) THEN JsonFail
        ELSE [ok |-> TRUE, v |-> r.v]

(***************************************************************************)
(* MKVAutoRename._backup_chapters: the text written to the sidecar.        *)
(***************************************************************************)
\* ChaptersData with the end times left out of the records
ChaptersData_NoEndTime(chs) ==
    PyList([i \in 1..Len(chs) |->
              PyDict(<< <<K_uid, PyStr(chs[i].uid)>>,
                        <<K_start_time, PyStr(chs[i].start_time)>>,
                        <<K_title, PyStr(chs[i].title)>> >>)])

ChaptersData(chs) ==
    PyList([i \in 1..Len(chs) |->
              PyDict(<< <<K_uid, PyStr(chs[i].uid)>>,
                        <<K_start_time, PyStr(chs[i].start_time)>>,
                        <<K_end_time, PyOpt(chs[i].end_time)>>,
                        <<K_title, PyStr(chs[i].title)>> >>)])

BackupText(chs) == JsonDump(ChaptersData(chs))

(***************************************************************************)
(* MKVAutoRename.restore_from_backup, from the text of the sidecar to the  *)
(* chapter file.  The fields of a rebuilt chapter are Python values: the   *)
(* constructor takes whatever json.load returned.                          *)
(***************************************************************************)
Raise(kind) == [ok |-> FALSE, error |-> kind]

\* what `for data in chapters_data` iterates over; int and bool raise
IterItems(x) ==
    CASE x.t = "list" -> x.v
      [] x.t = "dict" -> [i \in 1..Len(x.v) |-> PyStr(x.v[i][1])]
      [] x.t = "str"  -> [i \in 1..Len(x.v) |-> PyStr(<<x.v[i]>>)]

\* the exception the constructor call raises for one entry, "" for none
EntryError(data) ==
    IF data.t # "dict" THEN "TypeError"
    ELSE IF ~HasKey(data, K_uid) \/ ~HasKey(data, K_start_time) \/ ~HasKey(data, K_title)
    THEN "KeyError"
    ELSE ""

EntryChapter(data) ==
    MKVChapter(DictGet(data, K_uid),
               DictGet(data, K_start_time),
               IF HasKey(data, K_end_time) THEN DictGet(data, K_end_time) ELSE PyNone,
               DictGet(data, K_title))

RestoreChapters(text) ==
    LET loaded == JsonLoad(text)
    IN  IF ~loaded.ok THEN Raise("ValueError")
        ELSE IF ~Truthy(loaded.v) THEN Raise("ValueError")
        ELSE IF loaded.v.t \in {"int", "bool"} THEN Raise("TypeError")
        ELSE LET items == IterItems(loaded.v)
                 bad   == {i \in 1..Len(items) : EntryError(items[i]) # ""}
             IN  IF bad # {}
                 THEN Raise(EntryError(items[CHOOSE i \in bad : \A j \in bad : i <= j]))
                 ELSE [ok |-> TRUE,
                       chapters |-> [i \in 1..Len(items) |-> EntryChapter(items[i])]]

DigitSymbols == <<"0","1","2","3","4","5","6","7","8","9">>

RECURSIVE Decimal(_)
\* str(n) for n >= 0
Decimal(n) ==
    IF n < 10 THEN <<DigitSymbols[n + 1]>>
    ELSE Decimal(n \div 10) \o <<DigitSymbols[(n % 10) + 1]>>

\* f"{i:02d}"
TwoDigit(i) == IF i < 10 THEN <<"0">> \o Decimal(i) ELSE Decimal(i)

\* str(x) as an f-string writes it, for the values a field can hold here
PyFormat(x) ==
    CASE x.t = "str"  -> x.v
      [] x.t = "none" -> <<"N","o","n","e">>
      [] x.t = "int"  -> x.v
      [] x.t = "bool" -> IF x.v THEN <<"T","r","u","e">> ELSE <<"F","a","l","s","e">>

RECURSIVE RestoreLines(_, _)
\* the lines written for chs[i..], i counted from 1 (enumerate counts from 0)
RestoreLines(chs, i) ==
    IF i > Len(chs) THEN << >>
    ELSE <<"CHAPTER">> \o TwoDigit(i - 1) \o <<"=">>
             \o PyFormat(chs[i].start_time) \o NL
         \o <<"CHAPTER">> \o TwoDigit(i - 1) \o <<"NAME", "=">>
             \o PyFormat(chs[i].title) \o NL
         \o RestoreLines(chs, i + 1)

RestoreDocument(chs) == RestoreLines(chs, 1)

\* a chapter of the pipeline as the Python values of its fields
PyChapter(ch) ==
    MKVChapter(PyStr(ch.uid), PyStr(ch.start_time), PyOpt(ch.end_time), PyStr(ch.title))

PyChapters(chs) == [i \in 1..Len(chs) |-> PyChapter(chs[i])]

(***************************************************************************)
(* Times as numbers.  A float of seconds is an integer count of ticks,     *)
(* half a millisecond each, so that the halves the code takes of           *)
(* millisecond values are exact.  A percentage is an integer per mille.    *)
(***************************************************************************)
Ticks == 2 * 1000

DefaultChapterLength == 180

DigitValue(c) == CHOOSE n \in 0..9 : DigitSymbols[n + 1] = c

RECURSIVE ParseInt(_)
\* int(text) for a text of digits
ParseInt(digits) ==
    IF digits = << >> THEN 0
    ELSE 10 * ParseInt(SubSeq(digits, 1, Len(digits) - 1)) + DigitValue(digits[Len(digits)])

RECURSIVE Pow10(_)
Pow10(n) == IF n = 0 THEN 1 ELSE 10 * Pow10(n - 1)

\* float(text) for digits with an optional fraction, in ticks
ParseFloat(text) ==
    LET parts == Split(text, ".")
    IN  ParseInt(parts[1]) * Ticks
        + (IF Len(parts) > 1
           THEN (ParseInt(parts[2]) * Ticks) \div Pow10(Len(parts[2]))
           ELSE 0)

\* MKVChapter.parse_time_to_seconds
ParseTimeToSeconds(time_str) ==
    LET parts == Split(time_str, ":")
    IN  ParseInt(parts[1]) * 3600 * Ticks + ParseInt(parts[2]) * 60 * Ticks
        + ParseFloat(parts[3])

Max(a, b) == IF a >= b THEN a ELSE b

\* calculate_sample_time with `if not chapter_end` for `if chapter_end is None`:
\* an end of 0.0 counts as unknown
CalculateSampleTime_FalsyEnd(cfg, chapter_start, chapter_end) ==
    LET end == IF chapter_end = None \/ chapter_end = Some(0)
               THEN chapter_start + 180 * Ticks
               ELSE chapter_end[1]
    IN  CASE cfg.strategy = "start" ->
                chapter_start + cfg.offset
          [] cfg.strategy = "middle" ->
                ((chapter_start + end) \div 2) - ((cfg.duration * Ticks) \div 2)
          [] cfg.strategy = "end" ->
                Max(chapter_start, end - cfg.duration * Ticks - 5 * Ticks)
          [] cfg.strategy = "custom" ->
                chapter_start + (((end - chapter_start) * cfg.percentage) \div 1000)
          [] OTHER ->
                chapter_start + cfg.offset

(***************************************************************************)
(* RecognitionConfig.calculate_sample_time.  cfg.offset and the chapter    *)
(* bounds are in ticks, cfg.duration in seconds, cfg.percentage per mille; *)
(* chapter_end is None or Some(ticks).                                     *)
(***************************************************************************)
CalculateSampleTime(cfg, chapter_start, chapter_end) ==
    LET end == IF chapter_end = None
               THEN chapter_start + DefaultChapterLength * Ticks
               ELSE chapter_end[1]
    IN  CASE cfg.strategy = "start" ->
                chapter_start + cfg.offset
          [] cfg.strategy = "middle" ->
                LET mid_point == (chapter_start + end) \div 2
                IN  mid_point - ((cfg.duration * Ticks) \div 2)
          [] cfg.strategy = "end" ->
                Max(chapter_start, end - cfg.duration * Ticks - 5 * Ticks)
          [] cfg.strategy = "custom" ->
                LET chapter_duration == end - chapter_start
                IN  chapter_start + ((chapter_duration * cfg.percentage) \div 1000)
          [] OTHER ->
                chapter_start + cfg.offset

RecognitionConfig(strategy, offset, percentage, duration) ==
    [strategy |-> strategy, offset |-> offset, percentage |-> percentage,
     duration |-> duration]

(***************************************************************************)
(* Inputs of the sampling specification: whole and half seconds, an end    *)
(* that is absent, after, at or before the start.                          *)
(***************************************************************************)
SamplingStrategy == {"start", "middle", "end", "custom"}

SampleStarts == {0, 10 * Ticks, 12 * Ticks + 1000}

SampleLengths == {0, 2 * Ticks, 7 * Ticks + 1000, 60 * Ticks, 100 * Ticks}

SampleOffsets == {0, 5 * Ticks}

SamplePercentages == {0, 300, 500, 1000}

SampleDurations == {1, 3, 10}

(***************************************************************************)
(* ChapterTemplate.  A template is a text in which a replacement field     *)
(* such as {name} is one symbol.  A song record maps each key to None (the *)
(* key is absent) or Some(text).                                           *)
(***************************************************************************)
SongKeys == {"name", "transName", "artists", "album", "id", "popularity"}

\* song_info.get(key, default)
SongGet(song_info, key, default) ==
    IF song_info[key] = None THEN default ELSE song_info[key][1]

Whitespace == {" ", "\t", "\n", "\r"}

\* the fullwidth parentheses U+FF08 and U+FF09, one symbol each
FullwidthOpen == "U+FF08"

FullwidthClose == "U+FF09"

FieldSymbols ==
    {"{name}", "{trans_name}", "{artists}", "{artist_first}", "{album}", "{id}",
     "{popularity}"}

\* replacement fields str.format cannot resolve from the keyword arguments:
\* an unknown name raises KeyError, a positional field raises IndexError
UnknownFields == {"{bad}"}

PositionalFields == {"{}", "{0}"}

\* index after the run of white space that starts at i
WsEnd(s, i) ==
    LET rest == {j \in i..Len(s) : s[j] \notin Whitespace}
    IN  IF rest = {} THEN Len(s) + 1 ELSE CHOOSE j \in rest : \A k \in rest : j <= k

RECURSIVE CollapseWs(_)
\* re.sub(r'\s+', ' ', s)
CollapseWs(s) ==
    IF s = << >> THEN << >>
    ELSE IF Head(s) \in Whitespace
    THEN <<" ">> \o CollapseWs(SubSeq(s, WsEnd(s, 1), Len(s)))
    ELSE <<Head(s)>> \o CollapseWs(Tail(s))

\* s.strip()
Strip(s) ==
    LET keep == {i \in 1..Len(s) : s[i] \notin Whitespace}
    IN  IF keep = {} THEN << >>
        ELSE SubSeq(s, CHOOSE i \in keep : \A j \in keep : i <= j,
                       CHOOSE i \in keep : \A j \in keep : j <= i)

RECURSIVE RemoveTransName(_)
\* re.sub(r'[U+FF08(]?\{trans_name\}[U+FF09)]?', '', tmpl)
RemoveTransName(t) ==
    IF t = << >> THEN << >>
    ELSE LET at == IF Head(t) = "{trans_name}" THEN 1
                   ELSE IF Head(t) \in {FullwidthOpen, "("} /\ Len(t) >= 2 /\ t[2] = "{trans_name}"
                   THEN 2 ELSE 0
             after == IF at # 0 /\ Len(t) > at /\ t[at + 1] \in {FullwidthClose, ")"}
                      THEN at + 1 ELSE at
         IN  IF at = 0 THEN <<Head(t)>> \o RemoveTransName(Tail(t))
             ELSE RemoveTransName(SubSeq(t, after + 1, Len(t)))

\* the end of a match of \s*[U+FF08(]\s*[U+FF09)]\s* that starts at i, 0 when none does
EmptyBracketsEnd(s, i) ==
    LET o == WsEnd(s, i)
        c == IF o <= Len(s) /\ s[o] \in {FullwidthOpen, "("} THEN WsEnd(s, o + 1) ELSE 0
    IN  IF c # 0 /\ c <= Len(s) /\ s[c] \in {FullwidthClose, ")"} THEN WsEnd(s, c + 1) ELSE 0

RECURSIVE RemoveEmptyBrackets(_)
\* re.sub(r'\s*[U+FF08(]\s*[U+FF09)]\s*', '', result)
RemoveEmptyBrackets(s) ==
    IF s = << >> THEN << >>
    ELSE LET e == EmptyBracketsEnd(s, 1)
         IN  IF e # 0 THEN RemoveEmptyBrackets(SubSeq(s, e, Len(s)))
             ELSE <<Head(s)>> \o RemoveEmptyBrackets(Tail(s))

\* re.sub(r'\s*-\s*$', '', result): the leftmost i from which only white space,
\* one dash and white space remain
RemoveTrailingDash(s) ==
    LET starts == {i \in 1..Len(s) :
                     LET d == WsEnd(s, i)
                     IN  d <= Len(s) /\ s[d] = "-" /\ WsEnd(s, d + 1) = Len(s) + 1}
    IN  IF starts = {} THEN s
        ELSE SubSeq(s, 1, (CHOOSE i \in starts : \A j \in starts : i <= j) - 1)

\* the keyword arguments handed to str.format
TemplateVariables(song_info) ==
    [name         |-> SongGet(song_info, "name", << >>),
     trans_name   |-> SongGet(song_info, "transName", << >>),
     artists      |-> SongGet(song_info, "artists", << >>),
     artist_first |-> IF SongGet(song_info, "artists", << >>) # << >>
                      THEN Strip(Split(SongGet(song_info, "artists", << >>), ",")[1])
                      ELSE << >>,
     album        |-> SongGet(song_info, "album", << >>),
     id           |-> SongGet(song_info, "id", << >>),
     popularity   |-> SongGet(song_info, "popularity", <<"0">>)]

FieldValue(variables, sym) ==
    CASE sym = "{name}"         -> variables.name
      [] sym = "{trans_name}"   -> variables.trans_name
      [] sym = "{artists}"      -> variables.artists
      [] sym = "{artist_first}" -> variables.artist_first
      [] sym = "{album}"        -> variables.album
      [] sym = "{id}"           -> variables.id
      [] sym = "{popularity}"   -> variables.popularity
      [] OTHER                  -> <<sym>>

RECURSIVE Substitute(_, _)
Substitute(t, variables) ==
    IF t = << >> THEN << >>
    ELSE FieldValue(variables, Head(t)) \o Substitute(Tail(t), variables)

\* template.format(**variables): the text, or the exception of the first
\* field that cannot be resolved
StrFormat(t, variables) ==
    LET bad == {i \in 1..Len(t) : t[i] \in UnknownFields \cup PositionalFields}
    IN  IF bad = {} THEN [ok |-> TRUE, text |-> Substitute(t, variables)]
        ELSE IF t[CHOOSE i \in bad : \A j \in bad : i <= j] \in UnknownFields
        THEN Raise("KeyError")
        ELSE Raise("IndexError")

\* ChapterTemplate.format: [ok |-> TRUE, text |-> title], or the exception
\* that leaves the method
TemplateFormat(tpl, song_info) ==
    LET variables == TemplateVariables(song_info)
        tmpl      == IF Contains(tpl, "{trans_name}") /\ variables.trans_name = << >>
                     THEN Strip(CollapseWs(RemoveTransName(tpl)))
                     ELSE tpl
        formatted == StrFormat(tmpl, variables)
    IN  IF formatted.ok
        THEN [ok |-> TRUE,
              text |-> RemoveTrailingDash(
                         Strip(CollapseWs(RemoveEmptyBrackets(formatted.text))))]
        ELSE IF formatted.error = "KeyError"
        THEN [ok |-> TRUE, text |-> SongGet(song_info, "name", <<"U","n","k","n","o","w","n">>)]
        ELSE formatted

\* ChapterTemplate.TEMPLATES
PresetTemplate(name) ==
    CASE name = "default"    -> <<"{name}", " ", "-", " ", "{artists}">>
      [] name = "with_trans" -> <<"{name}", FullwidthOpen, "{trans_name}", FullwidthClose, "-", " ", "{artists}">>
      [] name = "full"       -> <<"{name}", " ", "-", " ", "{artists}", " ", "[", "{album}", "]">>
      [] name = "simple"     -> <<"{name}">>
      [] name = "artist_first" -> <<"{artists}", " ", "-", " ", "{name}">>
      [] name = "with_id"    -> <<"{name}", " ", "-", " ", "{artists}", " ", "(", "I", "D", ":", " ", "{id}", ")">>
      [] name = "detailed"   -> <<"{name}", FullwidthOpen, "{trans_name}", FullwidthClose, "-", " ", "{artists}", " ", "|", " ", "{album}">>
      [] name = "japanese"   -> <<"{name}", " ", "/", " ", "{artists}">>
      [] name = "minimal"    -> <<"{name}", " ", "-", " ", "{artist_first}">>

(***************************************************************************)
(* The external tools, as far as the pipeline depends on them.             *)
(***************************************************************************)
\* mkvextract prints a timestamp with nine fractional digits; the container
\* keeps three
NineDigits(t) == t \o <<"0","0","0","0","0","0">>

\* the document `mkvextract <file> chapters <tmp>` writes for the stored
\* chapters: the layout _generate_chapter_xml reproduces
MkvextractDocument(stored) ==
    GenerateChapterXml(
        [i \in 1..Len(stored) |->
            MKVChapter(stored[i].uid,
                       NineDigits(stored[i].start_time),
                       IF stored[i].end_time = None THEN None
                       ELSE Some(NineDigits(stored[i].end_time[1])),
                       stored[i].title)])

\* the chapters `mkvpropedit <file> --chapters <tmp.xml>` stores: on the
\* texts of this model (no markup inside a field) the tool reads the
\* document as _parse_chapter_xml does
MkvpropeditXmlChapters(doc) == ParseChapterXml(doc)

\* the lines of a simple chapter file (CHAPTERnn=..., CHAPTERnnNAME=...)
SimpleLines(doc) ==
    LET pieces == Split(doc, "\n")
    IN  SubSeq(pieces, 1, Len(pieces) - 1)

\* the text of a line after its first "="
LineValue(line) == SubSeq(line, Find(line, "=", 1) + 1, Len(line))

IsTimestamp(text) ==
    /\ text # << >>
    /\ \A i \in 1..Len(text) : text[i] \in JsonDigits \cup {":", "."}

\* mkvpropedit accepts the simple chapter file when every line pair is a
\* timestamp line and a name line
SimpleDocumentValid(doc) ==
    LET lines == SimpleLines(doc)
    IN  /\ Len(lines) % 2 = 0
        /\ \A k \in 1..(Len(lines) \div 2) :
              /\ Contains(lines[2 * k - 1], "=")
              /\ IsTimestamp(LineValue(lines[2 * k - 1]))
              /\ Contains(lines[2 * k], "NAME")

\* the chapters `mkvpropedit <file> --chapters <simple file>` stores: the
\* format has a start time and a name per chapter; the tool gives each
\* chapter a UID of its own choice (uids[k]) and no end time
MkvpropeditSimpleChapters(doc, uids) ==
    LET lines == SimpleLines(doc)
    IN  [k \in 1..(Len(lines) \div 2) |->
            MKVChapter(uids[k], LineValue(lines[2 * k - 1]), None,
                       LineValue(lines[2 * k]))]

(***************************************************************************)
(* Inputs of the pipeline specification.                                   *)
(***************************************************************************)
\* chapter i starts at minute i and, if it has an end, ends 30.5 s later
StoredStart(i) == <<"0","0",":","0">> \o Decimal(i) \o <<":","0","0",".","0","0","0">>

StoredEnd(i) == <<"0","0",":","0">> \o Decimal(i) \o <<":","3","0",".","5","0","0">>

StoredTitles == { <<"O">>, << >> }

StoredChapter(i) ==
    {MKVChapter(Decimal(i), StoredStart(i), e, t) :
        e \in {None, Some(StoredEnd(i))}, t \in StoredTitles}

RECURSIVE StoredUpTo(_)
\* the chapter lists of length 0..n a container can hold
StoredUpTo(n) ==
    IF n = 0 THEN {<< >>}
    ELSE LET shorter == StoredUpTo(n - 1)
         IN  shorter \cup {Append(q, c) : q \in {r \in shorter : Len(r) = n - 1},
                                           c \in StoredChapter(n)}

\* the UIDs mkvpropedit may give chapter k of a simple chapter file
ToolUIDs(k) == {Decimal(k), <<"9">> \o Decimal(k)}

SongA ==
    [name |-> Some(<<"X">>), transName |-> Some(<< >>),
     artists |-> Some(<<"A", ",", " ", "B">>), album |-> Some(<<"L">>),
     id |-> Some(<<"4", "2">>), popularity |-> Some(<<"0">>)]

SongB ==
    [name |-> Some(<<"Y">>), transName |-> Some(<<"T">>),
     artists |-> Some(<<"C">>), album |-> Some(<<"L">>),
     id |-> Some(<<"7">>), popularity |-> Some(<<"5">>)]

Songs == {SongA, SongB}

\* 'default', a custom template with an unknown field, one with a positional field
PipelineTemplates ==
    { PresetTemplate("default"), <<"{name}", " ", "{bad}">>, <<"{0}", " ", "{name}">> }

\* RecognitionConfig(): strategy START, offset 5.0, percentage 0.5, duration 3
DefaultConfig == RecognitionConfig("start", 5 * Ticks, 500, 3)

AudioResults == {"samples", "short", "nonzero", "missing"}

\* the recognition service is not asked when there are no samples
NotAsked == [kind |-> "not_asked"]

\* recognize_song: an exception inside it, no match, or the song matched
RecognitionResults ==
    {[kind |-> "error"], [kind |-> "nomatch"]}
        \cup {[kind |-> "match", song |-> g] : g \in Songs}

(***************************************************************************)
(* MKVAutoRename.process, one action per step.                             *)
(***************************************************************************)
\* the variables of the operation other than pc and result
OpVars == <<op, backup, template, config, chapters, idx, updated_count,
            extracted, outcome, sample_start, tool_calls, written>>

\* the operation ends: by a return (an outcome) or by an exception (its name)
Ends(how) == pc' = "finished" /\ result' = how

\* process that skips the backup step
AfterExtract_NoBackup(b) == "recognize"

\* `if backup: self._backup_chapters(chapters)`: where process goes on after
\* the extraction
AfterExtract(b) == IF b THEN "backup" ELSE "recognize"

\* extract_audio_sample without the check of the buffer length
ExtractAudioSample_NoLengthCheck(audio) ==
    IF audio \in {"samples", "short"} THEN Some("pcm") ELSE None

\* extract_audio_sample: the samples, or None for a short buffer and for a
\* non-zero exit of the decode tool
ExtractAudioSample(audio) == IF audio = "samples" THEN Some("pcm") ELSE None

\* process that writes whatever the count is
ShouldUpdate_Always(count) == count >= 0

\* `if updated_count > 0`
ShouldUpdate(count) == count > 0

\* process that goes on with an empty chapter list
NoChapters_Never(chs) == FALSE

\* `if not chapters:` after extract_chapters
NoChapters(chs) == chs = << >>

\* extract_chapters, and the return when there are no chapters
ProcessExtract ==
    /\ pc = "idle"
    /\ runs < MaxRuns
    /\ \E b \in BOOLEAN, tpl \in PipelineTemplates, toolOk \in BOOLEAN :
          LET chs == IF toolOk THEN ParseChapterXml(MkvextractDocument(container))
                     ELSE << >>
          IN  /\ op' = "process"
              /\ backup' = b
              /\ template' = tpl
              /\ config' = DefaultConfig
              /\ chapters' = chs
              /\ extracted' = chs
              /\ IF ~toolOk THEN Ends("RuntimeError")
                 ELSE IF NoChapters(chs) THEN Ends("nothing")
                 ELSE pc' = AfterExtract(b) /\ result' = ""
    /\ idx' = 1
    /\ updated_count' = 0
    /\ outcome' = << >>
    /\ sample_start' = 0
    /\ tool_calls' = 0
    /\ written' = None
    /\ runs' = runs + 1
    /\ UNCHANGED <<container, sidecar, original, backups>>
    /\ UNCHANGED exceptPipeline

\* _backup_chapters: open(backup_file, 'w') creates or truncates the file
BackupOpen ==
    /\ pc = "backup"
    /\ \E opened \in BOOLEAN :
          IF opened
          THEN sidecar' = Some(<< >>) /\ pc' = "backup_write" /\ result' = ""
          ELSE UNCHANGED sidecar /\ Ends("OSError")
    /\ UNCHANGED <<OpVars, container, original, runs, backups>>
    /\ UNCHANGED exceptPipeline

\* _backup_chapters: json.dump and the close of the file
BackupWrite ==
    /\ pc = "backup_write"
    /\ sidecar' = Some(BackupText(chapters))
    /\ backups' = backups + 1
    /\ pc' = "recognize"
    /\ UNCHANGED <<OpVars, result, container, original, runs>>
    /\ UNCHANGED exceptPipeline

\* an assignment of the title that also stores an end for a chapter without
SetTitle_StoresEnd(chs, i, text) ==
    [chs EXCEPT ![i].title = text,
                ![i].end_time = IF @ = None THEN Some(chs[i].start_time) ELSE @]

\* `chapter.title = new_title` on chapter i of the list
SetTitle(chs, i, text) == [chs EXCEPT ![i].title = text]

\* one pass of the loop over the chapters.  outcome records what the decode
\* tool and the recognition service gave for the chapter
RecognizeChapter ==
    /\ pc = "recognize"
    /\ idx <= Len(chapters)
    /\ \E audio \in AudioResults :
       \E rec \in (IF audio = "missing" \/ ExtractAudioSample(audio) = None
                  THEN {NotAsked} ELSE RecognitionResults) :
          LET chapter       == chapters[idx]
              start_seconds == ParseTimeToSeconds(chapter.start_time)
              end_seconds   == IF chapter.end_time # None /\ chapter.end_time[1] # << >>
                               THEN Some(ParseTimeToSeconds(chapter.end_time[1]))
                               ELSE None
              samples       == ExtractAudioSample(audio)
              title         == IF rec.kind = "match"
                               THEN TemplateFormat(template, rec.song)
                               ELSE Raise("")
          IN  /\ sample_start' =
                    CalculateSampleTime(config, start_seconds, end_seconds)
              /\ IF audio = "missing"
                 \* subprocess.run cannot start the decode tool
                 THEN /\ Ends("FileNotFoundError")
                      /\ UNCHANGED <<chapters, idx, updated_count, outcome>>
                 ELSE IF samples = None
                 \* extract_audio_sample returns None: `continue`
                 THEN /\ outcome' = Append(outcome, [audio |-> audio, rec |-> rec])
                      /\ idx' = idx + 1
                      /\ UNCHANGED <<chapters, updated_count, pc, result>>
                 ELSE IF rec.kind # "match"
                 \* recognize_song returns None
                 THEN /\ outcome' = Append(outcome, [audio |-> audio, rec |-> rec])
                      /\ idx' = idx + 1
                      /\ UNCHANGED <<chapters, updated_count, pc, result>>
                 ELSE IF ~title.ok
                 \* template.format raises
                 THEN /\ Ends(title.error)
                      /\ UNCHANGED <<chapters, idx, updated_count, outcome>>
                 ELSE /\ chapters' = SetTitle(chapters, idx, title.text)
                      /\ updated_count' = updated_count + 1
                      /\ outcome' = Append(outcome, [audio |-> audio, rec |-> rec])
                      /\ idx' = idx + 1
                      /\ UNCHANGED <<pc, result>>
    /\ UNCHANGED <<op, backup, template, config, extracted, tool_calls, written,
                   container, sidecar, original, runs, backups>>
    /\ UNCHANGED exceptPipeline

\* the end of process: update_chapters if updated_count > 0.  output_file is
\* None: mkvpropedit edits the file the chapters were read from
ProcessCommit ==
    /\ pc = "recognize"
    /\ idx > Len(chapters)
    /\ IF ShouldUpdate(updated_count)
       THEN \E toolOk \in BOOLEAN :
               /\ tool_calls' = tool_calls + 1
               /\ written' = Some(chapters)
               /\ IF toolOk
                  THEN /\ container' = MkvpropeditXmlChapters(GenerateChapterXml(chapters))
                       /\ Ends("committed")
                  ELSE /\ UNCHANGED container
                       /\ Ends("RuntimeError")
       ELSE /\ Ends("no_update")
            /\ UNCHANGED <<tool_calls, written, container>>
    /\ UNCHANGED <<op, backup, template, config, chapters, idx, updated_count,
                   extracted, outcome, sample_start, sidecar, original, runs, backups>>
    /\ UNCHANGED exceptPipeline

\* the user interrupts the run, or the process is killed
Interrupt ==
    /\ op = "process"
    /\ pc \in {"backup", "backup_write", "recognize"}
    /\ Ends("KeyboardInterrupt")
    /\ UNCHANGED <<OpVars, container, sidecar, original, runs, backups>>
    /\ UNCHANGED exceptPipeline

\* the operation is over; its objects are gone
Return ==
    /\ pc = "finished"
    /\ pc' = "idle"
    /\ op' = "" /\ backup' = FALSE /\ template' = << >> /\ config' = << >>
    /\ chapters' = << >> /\ idx' = 0 /\ updated_count' = 0 /\ result' = ""
    /\ extracted' = << >> /\ outcome' = << >> /\ sample_start' = 0
    /\ tool_calls' = 0 /\ written' = None
    /\ UNCHANGED <<container, sidecar, original, runs, backups>>
    /\ UNCHANGED exceptPipeline

(***************************************************************************)
(* MKVAutoRename.restore_from_backup                                       *)
(***************************************************************************)
\* up to the list of rebuilt chapters
RestoreRead ==
    /\ pc = "idle"
    /\ runs < MaxRuns
    /\ op' = "restore"
    /\ runs' = runs + 1
    /\ LET r == IF sidecar = None THEN Raise("FileNotFoundError")
                ELSE RestoreChapters(sidecar[1])
       IN  IF r.ok
           THEN chapters' = r.chapters /\ pc' = "restore_write" /\ result' = ""
           ELSE chapters' = << >> /\ Ends(r.error)
    /\ backup' = FALSE /\ template' = << >> /\ config' = << >>
    /\ idx' = 0 /\ updated_count' = 0 /\ extracted' = << >> /\ outcome' = << >>
    /\ sample_start' = 0 /\ tool_calls' = 0 /\ written' = None
    /\ UNCHANGED <<container, sidecar, original, backups>>
    /\ UNCHANGED exceptPipeline

\* the temporary chapter file and the call of mkvpropedit
RestoreWrite ==
    /\ pc = "restore_write"
    /\ LET doc == RestoreDocument(chapters)
       IN  /\ written' = Some(doc)
           /\ tool_calls' = tool_calls + 1
           /\ \E toolOk \in BOOLEAN :
                 IF toolOk /\ SimpleDocumentValid(doc)
                 THEN /\ \E uids \in [1..Len(chapters) -> UNION {ToolUIDs(k) : k \in 1..Len(chapters)}] :
                            /\ \A k \in 1..Len(chapters) : uids[k] \in ToolUIDs(k)
                            /\ container' = MkvpropeditSimpleChapters(doc, uids)
                      /\ Ends("restored")
                 ELSE /\ UNCHANGED container
                      /\ Ends("RuntimeError")
    /\ UNCHANGED <<op, backup, template, config, chapters, idx, updated_count,
                   extracted, outcome, sample_start, sidecar, original, runs, backups>>
    /\ UNCHANGED exceptPipeline

PipelineInit ==
    /\ container \in StoredUpTo(MaxChapters)
    /\ original = container
    /\ sidecar = None
    /\ pc = "idle" /\ op = "" /\ backup = FALSE /\ template = << >> /\ config = << >>
    /\ chapters = << >> /\ idx = 0 /\ updated_count = 0 /\ result = ""
    /\ extracted = << >> /\ outcome = << >> /\ sample_start = 0
    /\ tool_calls = 0 /\ written = None /\ runs = 0 /\ backups = 0

Init == PipelineInit /\ OffButPipeline

Next ==
    \/ ProcessExtract
    \/ BackupOpen
    \/ BackupWrite
    \/ RecognizeChapter
    \/ ProcessCommit
    \/ Interrupt
    \/ Return
    \/ RestoreRead
    \/ RestoreWrite

Spec == Init /\ [][Next]_vars

(***************************************************************************)
(* Inputs of the codec specification.                                      *)
(***************************************************************************)
T_000000 == <<"0","0",":","0","0",":","0","0",".","0","0","0">>

T_000130 == <<"0","0",":","0","1",":","3","0">>

T_000215 == <<"0","0",":","0","2",":","1","5",".","5">>

CodecUIDs == {<<"1">>, <<"7", "2">>}

CodecStarts == {T_000000, T_000130}

CodecEnds == {None, Some(T_000215)}

CodecTitles == { << >>, <<"A", " ", "\"", "\\", "\n">>, <<"a", "</ChapterString>", "b">> }

CodecChapter ==
    {MKVChapter(u, s, e, t) : u \in CodecUIDs, s \in CodecStarts,
                              e \in CodecEnds, t \in CodecTitles}

RECURSIVE SeqsUpTo(_, _)
\* the sequences over S of length 0..n
SeqsUpTo(S, n) ==
    IF n = 0 THEN {<< >>}
    ELSE LET shorter == SeqsUpTo(S, n - 1)
         IN  shorter \cup {Append(q, x) : q \in {r \in shorter : Len(r) = n - 1}, x \in S}

CodecInit ==
    /\ cpc = "input"
    /\ cs \in SeqsUpTo(CodecChapter, MaxCodecChapters)
    /\ xml_content = << >>
    /\ decoded = << >>
    /\ backup_text = << >>
    /\ restored = << >>
    /\ restore_doc = << >>
    /\ OffButCodec

EncodeXml ==
    /\ cpc = "input"
    /\ xml_content' = GenerateChapterXml(cs)
    /\ cpc' = "encoded"
    /\ UNCHANGED <<cs, decoded, backup_text, restored, restore_doc>>
    /\ UNCHANGED exceptCodec

DecodeXml ==
    /\ cpc = "encoded"
    /\ decoded' = ParseChapterXml(xml_content)
    /\ cpc' = "decoded"
    /\ UNCHANGED <<cs, xml_content, backup_text, restored, restore_doc>>
    /\ UNCHANGED exceptCodec

Snapshot ==
    /\ cpc = "input"
    /\ backup_text' = BackupText(cs)
    /\ cpc' = "snapshot"
    /\ UNCHANGED <<cs, xml_content, decoded, restored, restore_doc>>
    /\ UNCHANGED exceptCodec

RestoreLoad ==
    /\ cpc = "snapshot"
    /\ restored' = RestoreChapters(backup_text)
    /\ cpc' = "loaded"
    /\ UNCHANGED <<cs, xml_content, decoded, backup_text, restore_doc>>
    /\ UNCHANGED exceptCodec

RestoreEmit ==
    /\ cpc = "loaded"
    /\ restored.ok
    /\ restore_doc' = RestoreDocument(restored.chapters)
    /\ cpc' = "emitted"
    /\ UNCHANGED <<cs, xml_content, decoded, backup_text, restored>>
    /\ UNCHANGED exceptCodec

CodecNext == EncodeXml \/ DecodeXml \/ Snapshot \/ RestoreLoad \/ RestoreEmit

SpecCodec == CodecInit /\ [][CodecNext]_vars

(***************************************************************************)
(* The sampling specification: calculate_sample_time on each input.        *)
(***************************************************************************)
SampleInit ==
    /\ spc = "input"
    /\ sample_in \in
         [cfg : {RecognitionConfig(st, o, p, d) :
                    st \in SamplingStrategy, o \in SampleOffsets,
                    p \in SamplePercentages, d \in SampleDurations},
          chapter_start : SampleStarts,
          chapter_end : {None} \cup {Some(b + l) : b \in SampleStarts, l \in SampleLengths}]
    /\ sample_time = 0
    /\ OffButSample

Calculate ==
    /\ spc = "input"
    /\ sample_time' = CalculateSampleTime(sample_in.cfg, sample_in.chapter_start,
                                          sample_in.chapter_end)
    /\ spc' = "done"
    /\ UNCHANGED sample_in
    /\ UNCHANGED exceptSample

SampleNext == Calculate

SpecSample == SampleInit /\ [][SampleNext]_vars

(***************************************************************************)
(* The restore specification: restore_from_backup on a sidecar file that   *)
(* anything may have written.                                              *)
(***************************************************************************)
\* one entry of a sidecar file, as json.load returns it
BackupEntry(uid, start_time, end_time, title) ==
    PyDict(<< <<K_uid, uid>>, <<K_start_time, start_time>>,
              <<K_end_time, end_time>>, <<K_title, title>> >>)

\* a list with an entry whose start time is null
NullStartFile ==
    JsonDump(PyList(<< BackupEntry(PyStr(<<"1">>), PyNone, PyNone, PyStr(<<"x">>)) >>))

\* a list with an entry whose uid and title are numbers
NumberTitleFile ==
    JsonDump(PyList(<< BackupEntry(PyInt(<<"1">>), PyStr(StoredStart(1)), PyNone,
                                   PyInt(<<"5">>)) >>))

\* a list with a well-formed entry and one without a title
MissingTitleFile ==
    JsonDump(PyList(<< BackupEntry(PyStr(<<"1">>), PyStr(StoredStart(1)), PyNone,
                                   PyStr(<<"x">>)),
                       PyDict(<< <<K_uid, PyStr(<<"2">>)>>,
                                 <<K_start_time, PyStr(StoredStart(2))>> >>) >>))

\* a list with an entry that is a string
StringEntryFile == JsonDump(PyList(<< PyStr(<<"x">>) >>))

\* a single record instead of a list of records
RecordFile ==
    JsonDump(BackupEntry(PyStr(<<"1">>), PyStr(StoredStart(1)), PyNone, PyStr(<<"x">>)))

\* the sidecar: absent, empty, cut short, valid JSON of the wrong shape, and
\* the files _backup_chapters writes
SidecarFiles ==
    {None, Some(<< >>), Some(<<"[", "{">>), Some(<<"[", "]">>), Some(<<"{", "}">>),
     Some(<<"n", "u", "l", "l">>), Some(<<"7">>), Some(<<"\"", "a", "b", "\"">>),
     Some(NullStartFile), Some(NumberTitleFile), Some(MissingTitleFile),
     Some(StringEntryFile), Some(RecordFile)}
        \cup {Some(BackupText(chs)) : chs \in StoredUpTo(MaxChapters)}

RestoreInit ==
    /\ container \in StoredUpTo(MaxChapters)
    /\ original = container
    /\ sidecar \in SidecarFiles
    /\ pc = "idle" /\ op = "" /\ backup = FALSE /\ template = << >> /\ config = << >>
    /\ chapters = << >> /\ idx = 0 /\ updated_count = 0 /\ result = ""
    /\ extracted = << >> /\ outcome = << >> /\ sample_start = 0
    /\ tool_calls = 0 /\ written = None /\ runs = 0 /\ backups = 0
    /\ OffButPipeline

RestoreNext == RestoreRead \/ RestoreWrite \/ Return

SpecRestore == RestoreInit /\ [][RestoreNext]_vars

(***************************************************************************)
(* The audio specification: one call of extract_audio_sample.  A buffer is *)
(* modelled by its length in bytes, the samples by their number; the       *)
(* audio left in the stream after the sample start is counted in half      *)
(* seconds.                                                                *)
(***************************************************************************)
\* AFPInstance.DURATION
DURATION == 3

\* AFPInstance.SAMPLERATE
SAMPLERATE == 8000

\* AFPInstance.SAMPLECOUNT
SAMPLECOUNT == DURATION * SAMPLERATE

\* extract_audio_sample(..., duration: int = 3)
DefaultDuration == 3

\* the duration argument the caller passes: process passes none, the
\* recognition worker passes its --duration
DurationArgument(caller, configured) ==
    IF caller = "process" THEN DefaultDuration ELSE configured

\* the bytes ffmpeg writes for `-t window -ar SAMPLERATE -ac 1 -f f32le`:
\* four bytes per sample, for the window or for what the stream has left
DecodedLength(window, available_half) ==
    LET half == IF 2 * window <= available_half THEN 2 * window ELSE available_half
    IN  (half * SAMPLERATE * 4) \div 2

\* the body of extract_audio_sample after subprocess.run: None, or the
\* number of samples unpacked from buffer[:expected_size]
UnpackSamples(returncode, buffer_len) ==
    LET expected_size == SAMPLECOUNT * 4
    IN  IF returncode # 0 THEN None
        ELSE IF buffer_len < expected_size THEN None
        ELSE Some(expected_size \div 4)

ConfiguredDurations == {1, 3, 5, 10}

AvailableHalfSeconds == 0..12 \cup {20, 40}

AudioInit ==
    /\ apc = "input"
    /\ audio_call \in
         [configured : ConfiguredDurations, caller : {"process", "worker"},
          available_half : AvailableHalfSeconds, returncode : {0, 1},
          window : {0}, buffer_len : {0}, samples : {None}]
    /\ OffButAudio

\* the command line is built
AudioRequest ==
    /\ apc = "input"
    /\ audio_call' = [audio_call EXCEPT
          !.window = DurationArgument(audio_call.caller, audio_call.configured)]
    /\ apc' = "requested"
    /\ UNCHANGED exceptAudio

\* subprocess.run(cmd, capture_output=True, check=True)
AudioDecode ==
    /\ apc = "requested"
    /\ audio_call' = [audio_call EXCEPT
          !.buffer_len = IF audio_call.returncode = 0
                         THEN DecodedLength(audio_call.window,
                                            audio_call.available_half)
                         ELSE 0]
    /\ apc' = "decoded"
    /\ UNCHANGED exceptAudio

\* the length check and the unpack, or the CalledProcessError handler
AudioUnpack ==
    /\ apc = "decoded"
    /\ audio_call' = [audio_call EXCEPT
          !.samples = UnpackSamples(audio_call.returncode, audio_call.buffer_len)]
    /\ apc' = "done"
    /\ UNCHANGED exceptAudio

AudioNext == AudioRequest \/ AudioDecode \/ AudioUnpack

SpecAudio == AudioInit /\ [][AudioNext]_vars

(***************************************************************************)
(* The template specification: one call of ChapterTemplate.format.         *)
(***************************************************************************)
TitleUnknown == <<"U", "n", "k", "n", "o", "w", "n">>

\* the songs given to format: each of name, transName and artists absent,
\* empty or filled
TemplateSongs ==
    [name : {None, Some(<<"X">>)},
     transName : {None, Some(<< >>), Some(<<"T">>)},
     artists : {None, Some(<< >>), Some(<<"A", ",", " ", "B">>)},
     album : {Some(<<"L">>)}, id : {Some(<<"4", "2">>)},
     popularity : {Some(<<"0">>)}]

\* templates the user can write with set_custom_template or --custom-template
CustomTemplates ==
    { <<"{name}", " ", "{bad}">>,
      <<"{bad}">>,
      <<"{name}", " ", "(", "{trans_name}", ")", " ", "{bad}">>,
      <<"{0}", " ", "{name}">>,
      <<"{name}", " ", "-", " ", "{}">>,
      <<"{name}", " ", "(", "{trans_name}", ")", " ", "-">>,
      <<"{name}", " ", "[", "{trans_name}", "]", " ", "{album}">> }

PresetNames ==
    {"default", "with_trans", "full", "simple", "artist_first", "with_id",
     "detailed", "japanese", "minimal"}

TemplateInputs == {PresetTemplate(n) : n \in PresetNames} \cup CustomTemplates

TemplateInit ==
    /\ tpc = "input"
    /\ format_call \in [tpl : TemplateInputs, song_info : TemplateSongs,
                        result : {Raise("NotCalled")}]
    /\ OffButTemplate

\* ChapterTemplate.format(song_info)
FormatTitle ==
    /\ tpc = "input"
    /\ format_call' = [format_call EXCEPT
          !.result = TemplateFormat(format_call.tpl, format_call.song_info)]
    /\ tpc' = "done"
    /\ UNCHANGED exceptTemplate

TemplateNext == FormatTitle

SpecTemplate == TemplateInit /\ [][TemplateNext]_vars

(***************************************************************************)
(* The batch specification: BatchProcessor.process_directory, run by       *)
(* batch_process.main on a directory of containers.                        *)
(***************************************************************************)
MaxBatchRuns == 2

BatchFiles == <<"a.mkv", "b.mkv", "c.mkv">>

RECURSIVE SelectSeq2(_, _)
\* [f for f in files if keep(f)], keep given as a set
SelectSeq2(files, keep) ==
    IF files = << >> THEN << >>
    ELSE (IF Head(files) \in keep THEN <<Head(files)>> ELSE << >>)
            \o SelectSeq2(Tail(files), keep)

\* should_process(mkv_file)
ShouldProcess(skip_existing, backup_exists) ==
    IF skip_existing /\ backup_exists THEN FALSE ELSE TRUE

\* the parameters of MKVAutoRename.__init__ after self
RenamerParameters ==
    {"mkv_file", "recognition_config", "template", "ffmpeg_path",
     "mkvextract_path", "mkvpropedit_path"}

\* the keyword arguments process_single_file passes to MKVAutoRename
BatchKeywords ==
    {"sample_offset", "ffmpeg_path", "mkvextract_path", "mkvpropedit_path"}

\* the call MKVAutoRename(str(mkv_file), **keywords)
ConstructRenamer(keywords) ==
    IF keywords \subseteq RenamerParameters
    THEN [ok |-> TRUE]
    ELSE Raise("TypeError")

\* what the try block of process_single_file can do: the constructor raises,
\* or process(backup=True) runs and returns (with chapters: the sidecar is
\* written; without: it is not) or raises before or after the backup
TryBlockOutcomes ==
    IF ConstructRenamer(BatchKeywords).ok
    THEN [raised : BOOLEAN, called : {TRUE}, wrote : BOOLEAN]
    ELSE {[raised |-> TRUE, called |-> FALSE, wrote |-> FALSE]}

\* process_single_file without its except clause
SingleFileResult_NoExcept(o) == IF o.raised THEN "raise" ELSE "True"

\* process_single_file: True, or False from `except Exception`
SingleFileResult(o) == IF o.raised THEN "False" ELSE "True"

\* self.stats after one result is counted
Counted(st, res) ==
    IF res = "True" THEN [st EXCEPT !.success = @ + 1]
    ELSE [st EXCEPT !.failed = @ + 1]

BatchInit ==
    /\ bpc = "idle"
    /\ batch_cfg \in [skip_existing : BOOLEAN, max_workers : {1, 2}]
    /\ sidecars \in SUBSET {BatchFiles[i] : i \in 1..Len(BatchFiles)}
    /\ mkv_files = << >>
    /\ waiting = << >>
    /\ inflight = {}
    /\ completed = << >>
    /\ stats = [total |-> 0, success |-> 0, failed |-> 0, skipped |-> 0]
    /\ attempts = << >>
    /\ batch_runs = 0
    /\ OffButBatch

\* main builds a BatchProcessor; process_directory finds the files, filters
\* them and sets total and skipped; it returns at once when nothing is found
\* or nothing is left
BatchStart ==
    /\ bpc \in {"idle", "returned"}
    /\ batch_runs < MaxBatchRuns
    /\ \E n \in 0..Len(BatchFiles), skip \in BOOLEAN :
          LET found == SubSeq(BatchFiles, 1, n)
              keep  == {f \in {found[i] : i \in 1..n} :
                          ShouldProcess(skip, f \in sidecars)}
              todo  == SelectSeq2(found, keep)
          IN  /\ batch_cfg' = [batch_cfg EXCEPT !.skip_existing = skip]
              /\ mkv_files' = found
              /\ waiting' = todo
              /\ stats' = IF n = 0
                          THEN [total |-> 0, success |-> 0, failed |-> 0, skipped |-> 0]
                          ELSE [total |-> n, success |-> 0, failed |-> 0,
                                skipped |-> n - Len(todo)]
              /\ bpc' = IF todo = << >> THEN "returned"
                        ELSE IF batch_cfg.max_workers = 1 THEN "serial"
                        ELSE "pool"
    /\ inflight' = {}
    /\ completed' = << >>
    /\ attempts' = << >>
    /\ batch_runs' = batch_runs + 1
    /\ UNCHANGED sidecars
    /\ UNCHANGED exceptBatch

\* one turn of the serial loop
SerialFile ==
    /\ bpc = "serial"
    /\ waiting # << >>
    /\ \E o \in TryBlockOutcomes :
          LET res == SingleFileResult(o)
          IN  /\ attempts' = Append(attempts, [file |-> Head(waiting), o |-> o])
              /\ sidecars' = IF o.wrote THEN sidecars \cup {Head(waiting)} ELSE sidecars
              /\ IF res = "raise"
                 THEN bpc' = "raised" /\ UNCHANGED stats
                 ELSE bpc' = bpc /\ stats' = Counted(stats, res)
    /\ waiting' = Tail(waiting)
    /\ UNCHANGED <<batch_cfg, mkv_files, inflight, completed, batch_runs>>
    /\ UNCHANGED exceptBatch

\* a pool that starts a thread for every submitted container
WorkerFree_Unbounded(running, max_workers) == TRUE

\* ThreadPoolExecutor(max_workers): a container is taken when fewer than
\* max_workers threads are running one
WorkerFree(running, max_workers) == Cardinality(running) < max_workers

\* a pool thread takes the next submitted container
PoolTake ==
    /\ bpc = "pool"
    /\ waiting # << >>
    /\ WorkerFree(inflight, batch_cfg.max_workers)
    /\ inflight' = inflight \cup {Head(waiting)}
    /\ waiting' = Tail(waiting)
    /\ UNCHANGED <<bpc, batch_cfg, sidecars, mkv_files, completed, stats,
                   attempts, batch_runs>>
    /\ UNCHANGED exceptBatch

\* a pool thread ends process_single_file; the future holds its result
PoolFinish ==
    /\ bpc = "pool"
    /\ \E f \in inflight, o \in TryBlockOutcomes :
          /\ inflight' = inflight \ {f}
          /\ attempts' = Append(attempts, [file |-> f, o |-> o])
          /\ sidecars' = IF o.wrote THEN sidecars \cup {f} ELSE sidecars
          /\ completed' = Append(completed, SingleFileResult(o))
    /\ UNCHANGED <<bpc, batch_cfg, mkv_files, waiting, stats, batch_runs>>
    /\ UNCHANGED exceptBatch

\* for future in as_completed(futures): future.result()
PoolCollect ==
    /\ bpc = "pool"
    /\ completed # << >>
    /\ IF Head(completed) = "raise"
       THEN bpc' = "raised" /\ UNCHANGED stats
       ELSE bpc' = bpc /\ stats' = Counted(stats, Head(completed))
    /\ completed' = Tail(completed)
    /\ UNCHANGED <<batch_cfg, sidecars, mkv_files, waiting, inflight, attempts,
                   batch_runs>>
    /\ UNCHANGED exceptBatch

\* the loop or the pool is through: _print_summary, return
BatchReturn ==
    /\ bpc \in {"serial", "pool"}
    /\ waiting = << >> /\ inflight = {} /\ completed = << >>
    /\ bpc' = "returned"
    /\ UNCHANGED <<batch_cfg, sidecars, mkv_files, waiting, inflight, completed,
                   stats, attempts, batch_runs>>
    /\ UNCHANGED exceptBatch

BatchNext ==
    \/ BatchStart
    \/ SerialFile
    \/ PoolTake
    \/ PoolFinish
    \/ PoolCollect
    \/ BatchReturn

SpecBatch == BatchInit /\ [][BatchNext]_vars

(***************************************************************************)
(* The external call specification: the chapter loop of                    *)
(* MKVAutoRename.process and of RecognitionWorker.run, as far as the       *)
(* external calls and their timeouts go.  process calls ffmpeg             *)
(* ("decode") and, with samples, the recognition service ("recognize");    *)
(* the RecognitionWorker runs recognition_worker.py ("worker") for both.   *)
(***************************************************************************)
MaxCallChapters == 3

\* the seconds given as timeout= to the call, None when the call passes none
CallTimeout(call) ==
    CASE call = "decode"    -> None
      [] call = "recognize" -> None
      [] call = "worker"    -> Some(30)

CallsInFlight == {"decode", "recognize", "worker"}

\* the first call of an iteration
FirstCall(caller) == IF caller = "process" THEN "decode" ELSE "worker"

CallsInit ==
    /\ kpc = "loop"
    /\ call_cfg \in [caller : {"process", "gui"}, n : 1..MaxCallChapters]
    /\ ki = 1
    /\ hung = FALSE
    /\ marks = << >>
    /\ OffButCalls

\* the loop starts the external call of chapter ki; the call may be one
\* that never returns
CallStart ==
    /\ kpc = "loop"
    /\ ki <= call_cfg.n
    /\ kpc' = FirstCall(call_cfg.caller)
    /\ hung' \in BOOLEAN
    /\ UNCHANGED <<call_cfg, ki, marks>>
    /\ UNCHANGED exceptCalls

\* the call in flight returns: the decode with samples (the recognition call
\* follows) or without, the others with a song or without
CallReturn ==
    /\ kpc \in CallsInFlight
    /\ ~hung
    /\ \/ /\ kpc = "decode"
          /\ kpc' = "recognize"
          /\ hung' \in BOOLEAN
          /\ UNCHANGED <<ki, marks>>
       \/ /\ \E m \in {"recognized", "unrecognized"} :
                /\ kpc = "decode" => m = "unrecognized"
                /\ marks' = Append(marks, m)
          /\ kpc' = "loop"
          /\ ki' = ki + 1
          /\ hung' = FALSE
    /\ UNCHANGED call_cfg
    /\ UNCHANGED exceptCalls

\* subprocess.TimeoutExpired: the timeout of the call in flight has passed
CallTimesOut ==
    /\ kpc \in CallsInFlight
    /\ CallTimeout(kpc) # None
    /\ marks' = Append(marks, "unrecognized")
    /\ kpc' = "loop"
    /\ ki' = ki + 1
    /\ hung' = FALSE
    /\ UNCHANGED call_cfg
    /\ UNCHANGED exceptCalls

\* the loop is through
CallsEnd ==
    /\ kpc = "loop"
    /\ ki > call_cfg.n
    /\ kpc' = "done"
    /\ UNCHANGED <<call_cfg, ki, hung, marks>>
    /\ UNCHANGED exceptCalls

CallsNext == CallStart \/ CallReturn \/ CallTimesOut \/ CallsEnd

\* the thread that runs the loop keeps running, a call that is not hung
\* returns, and a timeout that was set expires
CallsFairness ==
    /\ WF_vars(CallStart)
    /\ WF_vars(CallReturn)
    /\ WF_vars(CallTimesOut)
    /\ WF_vars(CallsEnd)

SpecCalls == CallsInit /\ [][CallsNext]_vars /\ CallsFairness

(***************************************************************************)
(* The cancellation specification: the chapter loop run by                 *)
(* RecognitionWorker.run in its own thread, which the GUI thread cancels   *)
(* with stop(), and the loop of MKVAutoRename.process run by main, which   *)
(* the user interrupts.  is_running is shared by the two threads without   *)
(* a lock, so every read of it is a step of its own.                       *)
(***************************************************************************)
MaxCancelChapters == 3

CancelInit ==
    /\ wpc = "check"
    /\ run_cfg \in [mode : {"gui", "cli"}, n : 1..MaxCancelChapters]
    /\ wi = 1
    /\ is_running = TRUE
    /\ cancelled = FALSE
    /\ begun = {}
    /\ updated = 0
    /\ finished_all = FALSE
    /\ writes = 0
    /\ OffButCancel

\* the head of an iteration: the loop is through, or (worker) is_running is
\* read and the loop breaks, or the chapter begins and its call is started
LoopCheck ==
    /\ wpc = "check"
    /\ IF wi > run_cfg.n
       THEN /\ wpc' = IF run_cfg.mode = "gui" THEN "endcheck" ELSE "commit"
            /\ UNCHANGED begun
       ELSE IF run_cfg.mode = "gui" /\ ~is_running
       THEN /\ wpc' = "endcheck"
            /\ UNCHANGED begun
       ELSE /\ wpc' = "call"
            /\ begun' = begun \cup {wi}
    /\ UNCHANGED <<run_cfg, wi, is_running, cancelled, updated, finished_all, writes>>
    /\ UNCHANGED exceptCancel

\* the recognition call of the chapter ends, with a song or without
CallDone ==
    /\ wpc = "call"
    /\ \E found \in BOOLEAN : updated' = IF found THEN updated + 1 ELSE updated
    /\ wi' = wi + 1
    /\ wpc' = "check"
    /\ UNCHANGED <<run_cfg, is_running, cancelled, begun, finished_all, writes>>
    /\ UNCHANGED exceptCancel

\* `if self.is_running:` after the loop
EndCheck ==
    /\ wpc = "endcheck"
    /\ wpc' = IF is_running THEN "emit" ELSE "exit"
    /\ UNCHANGED <<run_cfg, wi, is_running, cancelled, begun, updated,
                   finished_all, writes>>
    /\ UNCHANGED exceptCancel

\* self.finished_all.emit()
EmitFinished ==
    /\ wpc = "emit"
    /\ finished_all' = TRUE
    /\ wpc' = "exit"
    /\ UNCHANGED <<run_cfg, wi, is_running, cancelled, begun, updated, writes>>
    /\ UNCHANGED exceptCancel

\* process after its loop: update_chapters when a chapter was updated
CommitRun ==
    /\ wpc = "commit"
    /\ writes' = IF updated > 0 THEN writes + 1 ELSE writes
    /\ wpc' = "exit"
    /\ UNCHANGED <<run_cfg, wi, is_running, cancelled, begun, updated, finished_all>>
    /\ UNCHANGED exceptCancel

\* cancel_recognition in the GUI thread: worker.isRunning(), worker.stop()
StopWorker ==
    /\ run_cfg.mode = "gui"
    /\ wpc # "exit"
    /\ ~cancelled
    /\ is_running' = FALSE
    /\ cancelled' = TRUE
    /\ UNCHANGED <<wpc, run_cfg, wi, begun, updated, finished_all, writes>>
    /\ UNCHANGED exceptCancel

\* KeyboardInterrupt during the recognition loop of process: it leaves
\* process, main prints and exits
InterruptRun ==
    /\ run_cfg.mode = "cli"
    /\ wpc \in {"check", "call"}
    /\ wpc' = "exit"
    /\ cancelled' = TRUE
    /\ UNCHANGED <<run_cfg, wi, is_running, begun, updated, finished_all, writes>>
    /\ UNCHANGED exceptCancel

CancelNext ==
    \/ LoopCheck
    \/ CallDone
    \/ EndCheck
    \/ EmitFinished
    \/ CommitRun
    \/ StopWorker
    \/ InterruptRun

SpecCancel == CancelInit /\ [][CancelNext]_vars

(***************************************************************************)
(* The decode specification: extract_chapters on a document that may be    *)
(* cut short, and the first step of process after it.                      *)
(***************************************************************************)
\* the documents of the chapter schema for the stored chapter lists
SchemaDocuments == {MkvextractDocument(s) : s \in StoredUpTo(MaxChapters)}

\* a schema document cut after k symbols: the closing tags are missing
CutDocuments ==
    UNION {{SubSeq(d, 1, k) : k \in 1..(Len(d) - 1)} : d \in SchemaDocuments}
        \ SchemaDocuments

\* extract_chapters: RuntimeError when mkvextract failed, else the list
\* _parse_chapter_xml builds, which raises nothing
ExtractChapters(rc, doc) ==
    IF rc # 0 THEN Raise("RuntimeError")
    ELSE [ok |-> TRUE, chapters |-> ParseChapterXml(doc)]

\* process after extract_chapters: the exception leaves process, an empty
\* list ends the run with nothing to do, else the run goes on
AfterExtractChapters(res) ==
    IF ~res.ok THEN res.error
    ELSE IF res.chapters = << >> THEN "nothing_to_do"
    ELSE "goes_on"

DecodeInit ==
    /\ dpc = "input"
    /\ document \in SchemaDocuments \cup CutDocuments
    /\ extract_rc \in {0, 1}
    /\ extract_result = << >>
    /\ run_result = ""
    /\ OffButDecode

\* chapters = self.chapter_manager.extract_chapters()
DecodeExtract ==
    /\ dpc = "input"
    /\ extract_result' = ExtractChapters(extract_rc, document)
    /\ dpc' = "extracted"
    /\ UNCHANGED <<document, extract_rc, run_result>>
    /\ UNCHANGED exceptDecode

\* if not chapters: return
DecodeDecide ==
    /\ dpc = "extracted"
    /\ run_result' = AfterExtractChapters(extract_result)
    /\ dpc' = "done"
    /\ UNCHANGED <<document, extract_rc, extract_result>>
    /\ UNCHANGED exceptDecode

DecodeNext == DecodeExtract \/ DecodeDecide

SpecDecode == DecodeInit /\ [][DecodeNext]_vars

(***************************************************************************)
(* The configuration specification: the options argparse hands to main,    *)
(* the configuration file, merge_config_with_args and the template main    *)
(* takes from the merged configuration.                                    *)
(***************************************************************************)
\* a text of the command line or of the file, as one symbol
Txt(s) == PyStr(<<s>>)

\* the value of an option in the Namespace: the one given, else the default
\* of add_argument
ArgValue(given, default) == IF given = None THEN default ELSE given[1]

\* parser.parse_args()
ParseArgs(given) ==
    [mkv_file    |-> ArgValue(given.mkv_file, PyNone),
     output      |-> ArgValue(given.output, PyNone),
     strategy    |-> ArgValue(given.strategy, "start"),
     offset      |-> ArgValue(given.offset, 5 * Ticks),
     percentage  |-> ArgValue(given.percentage, 500),
     duration    |-> ArgValue(given.duration, 3),
     template    |-> ArgValue(given.template, Txt("default")),
     ffmpeg      |-> ArgValue(given.ffmpeg, PyNone),
     mkvextract  |-> ArgValue(given.mkvextract, PyNone),
     mkvpropedit |-> ArgValue(given.mkvpropedit, PyNone),
     no_backup   |-> ArgValue(given.no_backup, PyBool(FALSE)),
     skip_check  |-> ArgValue(given.skip_check, PyBool(FALSE))]

\* config.get(key, default), also for the nested dictionaries
ConfigGet(cfg, key, default) == IF cfg[key] = None THEN default ELSE cfg[key][1]

\* a or b
PyOr(a, b) == IF Truthy(a) THEN a ELSE b

\* merge_config_with_args(config, args)
MergeConfigWithArgs(cfg, args) ==
    [mkv_file        |-> PyOr(args.mkv_file, ConfigGet(cfg, "mkv_file", PyNone)),
     output          |-> PyOr(args.output, ConfigGet(cfg, "output", PyNone)),
     template        |-> IF args.template # Txt("default") THEN args.template
                         ELSE ConfigGet(cfg, "template", Txt("default")),
     custom_template |-> ConfigGet(cfg, "custom_template", PyNone),
     strategy        |-> IF args.strategy # "start" THEN args.strategy
                         ELSE ConfigGet(cfg, "strategy", "start"),
     offset          |-> IF args.offset # 5 * Ticks THEN args.offset
                         ELSE ConfigGet(cfg, "offset", 5 * Ticks),
     percentage      |-> IF args.percentage # 500 THEN args.percentage
                         ELSE ConfigGet(cfg, "percentage", 500),
     duration        |-> IF args.duration # 3 THEN args.duration
                         ELSE ConfigGet(cfg, "duration", 3),
     ffmpeg          |-> PyOr(args.ffmpeg, ConfigGet(cfg, "ffmpeg", PyNone)),
     mkvextract      |-> PyOr(args.mkvextract, ConfigGet(cfg, "mkvextract", PyNone)),
     mkvpropedit     |-> PyOr(args.mkvpropedit, ConfigGet(cfg, "mkvpropedit", PyNone)),
     no_backup       |-> PyOr(args.no_backup, ConfigGet(cfg, "no_backup", PyBool(FALSE))),
     skip_check      |-> PyOr(args.skip_check, ConfigGet(cfg, "skip_check", PyBool(FALSE)))]

\* main: the custom template when the merged configuration has one, else
\* the template
UsedTemplate(merged) ==
    IF Truthy(merged.custom_template)
    THEN merged.custom_template
    ELSE merged.template

\* what the user can give on the command line
CommandLines ==
    [mkv_file : {Some(Txt("a.mkv"))}, output : {None},
     strategy : {None, Some("start"), Some("end")},
     offset : {None, Some(5 * Ticks)},
     percentage : {None},
     duration : {None, Some(3), Some(5)},
     template : {None, Some(Txt("default")), Some(Txt("simple"))},
     ffmpeg : {None, Some(Txt("/cli/ffmpeg"))},
     mkvextract : {None}, mkvpropedit : {None},
     no_backup : {None, Some(PyBool(TRUE))},
     skip_check : {None}]

\* what the configuration file can hold
ConfigFiles ==
    [mkv_file : {None}, output : {None},
     strategy : {None, Some("middle")},
     offset : {None, Some(9 * Ticks)},
     percentage : {None},
     duration : {None, Some(7)},
     template : {None, Some(Txt("full"))},
     custom_template : {None, Some(Txt("{id}"))},
     ffmpeg : {None, Some(Txt("/file/ffmpeg"))},
     mkvextract : {None}, mkvpropedit : {None},
     no_backup : {None, Some(PyBool(FALSE)), Some(PyBool(TRUE))},
     skip_check : {None}]

MergeInit ==
    /\ mpc = "input"
    /\ cli_given \in CommandLines
    /\ file_config \in ConfigFiles
    /\ merged_config = << >>
    /\ used_template = << >>
    /\ OffButMerge

\* merged_config = merge_config_with_args(config, args), and the template
\* main chooses from it
MergeConfig ==
    /\ mpc = "input"
    /\ LET merged == MergeConfigWithArgs(file_config, ParseArgs(cli_given))
       IN  /\ merged_config' = merged
           /\ used_template' = UsedTemplate(merged)
    /\ mpc' = "merged"
    /\ UNCHANGED <<cli_given, file_config>>
    /\ UNCHANGED exceptMerge

MergeNext == MergeConfig

SpecMerge == MergeInit /\ [][MergeNext]_vars

(***************************************************************************)
(* The entry point specification: main from the restore branch on, with    *)
(* the exit code the interpreter ends with.  A return of main and the end  *)
(* of the script give 0, sys.exit(n) gives n, parser.error gives 2, an     *)
(* exception that leaves main gives 1 (KeyboardInterrupt: 130).            *)
(***************************************************************************)
\* how restore_from_backup or MKVAutoRename(...).process(...) can end
OperationEnds ==
    {"success", "nothing", "FileNotFoundError", "ValueError", "RuntimeError",
     "KeyboardInterrupt"}

\* the exit code when the exception exc leaves main uncaught
UncaughtExit(exc) == IF exc = "KeyboardInterrupt" THEN 130 ELSE 1

\* the restore branch of main before restore_from_backup: "call", or the
\* return that ends main
RestoreBranch(m) ==
    IF ~m.mkv_file THEN "return"
    ELSE IF m.skip_check \/ m.mkvpropedit THEN "call"
    ELSE IF m.tools_found THEN "call"
    ELSE "return"

\* try: restore_from_backup(...) except Exception: print; then return
RestoreExit(ends) ==
    IF ends = "KeyboardInterrupt" THEN UncaughtExit(ends) ELSE 0

\* the normal branch before the renamer is built: parser.error without a
\* path, sys.exit(1) when check_dependencies finds a tool missing
NormalBranch(m) ==
    IF ~m.mkv_file THEN "parser.error"
    ELSE IF ~m.skip_check /\ ~m.tools_found THEN "sys.exit"
    ELSE "call"

\* try: MKVAutoRename(...).process(...) with the two except clauses
NormalExit(ends) ==
    IF ends \in {"success", "nothing"} THEN 0 ELSE 1

MainInit ==
    /\ epc = "start"
    /\ main_in \in [restore : BOOLEAN, mkv_file : BOOLEAN, skip_check : BOOLEAN,
                    mkvpropedit : BOOLEAN, tools_found : BOOLEAN,
                    ends : OperationEnds]
    /\ exit_code = -1
    /\ OffButMain

\* main up to the call of the operation, or to the point it ends before
MainDispatch ==
    /\ epc = "start"
    /\ LET way == IF main_in.restore THEN RestoreBranch(main_in)
                  ELSE NormalBranch(main_in)
       IN  IF way = "call"
           THEN /\ epc' = IF main_in.restore THEN "restore" ELSE "normal"
                /\ UNCHANGED exit_code
           ELSE /\ epc' = "exited"
                /\ exit_code' = CASE way = "return"       -> 0
                                  [] way = "parser.error" -> 2
                                  [] way = "sys.exit"     -> 1
    /\ UNCHANGED main_in
    /\ UNCHANGED exceptMain

\* restore_from_backup ends; main returns
MainRestore ==
    /\ epc = "restore"
    /\ exit_code' = RestoreExit(main_in.ends)
    /\ epc' = "exited"
    /\ UNCHANGED main_in
    /\ UNCHANGED exceptMain

\* the renamer ends; main returns or calls sys.exit(1)
MainProcess ==
    /\ epc = "normal"
    /\ exit_code' = NormalExit(main_in.ends)
    /\ epc' = "exited"
    /\ UNCHANGED main_in
    /\ UNCHANGED exceptMain

MainNext == MainDispatch \/ MainRestore \/ MainProcess

SpecMain == MainInit /\ [][MainNext]_vars

(***************************************************************************)
(* The temporary chapter file of extract_chapters, update_chapters and     *)
(* restore_from_backup: when it is created, what is written to it, and the *)
(* finally clause that removes it.                                         *)
(***************************************************************************)
\* what subprocess.run of the tool gives: exit code zero, another exit
\* code, or the executable cannot be started
ToolRuns == {"zero", "nonzero", "missing"}

\* the exception subprocess.run or the check of the return code raises
ToolException(run) ==
    CASE run = "zero"    -> ""
      [] run = "nonzero" -> "RuntimeError"
      [] run = "missing" -> "FileNotFoundError"

\* the operations whose temporary file is created before their try block
CreatedBeforeTry == {"extract", "update"}

TempInit ==
    /\ fpc = "idle"
    /\ temp_call \in [op : {"extract", "update", "restore"}, n : 1..MaxTempChapters]
    /\ temp_file = FALSE
    /\ temp_lines = 0
    /\ temp_made = FALSE
    /\ temp_exc = ""
    /\ OffButTemp

\* extract_chapters, update_chapters: tempfile.NamedTemporaryFile(delete=False)
\* creates the file; restore_from_backup: the try block is entered
TempStart ==
    /\ fpc = "idle"
    /\ IF temp_call.op \in CreatedBeforeTry
       THEN \E made \in BOOLEAN :
               IF made
               THEN temp_file' = TRUE /\ temp_made' = TRUE /\ fpc' = "with"
                    /\ UNCHANGED temp_exc
               ELSE temp_exc' = "OSError" /\ fpc' = "done"
                    /\ UNCHANGED <<temp_file, temp_made>>
       ELSE fpc' = "open" /\ UNCHANGED <<temp_file, temp_made, temp_exc>>
    /\ UNCHANGED <<temp_call, temp_lines>>
    /\ UNCHANGED exceptTemp

\* the body of the with statement, before the try block: extract_chapters
\* reads tmp.name; update_chapters writes the document, and an exception of
\* the write leaves the operation
TempWith ==
    /\ fpc = "with"
    /\ IF temp_call.op = "update"
       THEN \E exc \in {"", "UnicodeEncodeError", "OSError"} :
               IF exc = ""
               THEN fpc' = "tool" /\ temp_lines' = temp_call.n /\ UNCHANGED temp_exc
               ELSE fpc' = "done" /\ temp_exc' = exc /\ UNCHANGED temp_lines
       ELSE fpc' = "tool" /\ UNCHANGED <<temp_lines, temp_exc>>
    /\ UNCHANGED <<temp_call, temp_file, temp_made>>
    /\ UNCHANGED exceptTemp

\* restore_from_backup: open(temp_chapters_file, 'w') inside the try block
TempOpen ==
    /\ fpc = "open"
    /\ \E opened \in BOOLEAN :
          IF opened
          THEN temp_file' = TRUE /\ temp_made' = TRUE /\ fpc' = "lines"
               /\ UNCHANGED temp_exc
          ELSE temp_exc' = "OSError" /\ fpc' = "finally"
               /\ UNCHANGED <<temp_file, temp_made>>
    /\ UNCHANGED <<temp_call, temp_lines>>
    /\ UNCHANGED exceptTemp

\* restore_from_backup: the two lines of one chapter are written, or a write
\* raises
TempWriteLine ==
    /\ fpc = "lines"
    /\ temp_lines < temp_call.n
    /\ \E exc \in {"", "UnicodeEncodeError", "OSError"} :
          IF exc = ""
          THEN /\ temp_lines' = temp_lines + 1
               /\ fpc' = IF temp_lines + 1 = temp_call.n THEN "tool" ELSE "lines"
               /\ UNCHANGED temp_exc
          ELSE fpc' = "finally" /\ temp_exc' = exc /\ UNCHANGED temp_lines
    /\ UNCHANGED <<temp_call, temp_file, temp_made>>
    /\ UNCHANGED exceptTemp

\* subprocess.run of mkvextract or mkvpropedit and the check of the return
\* code, inside the try block
TempTool ==
    /\ fpc = "tool"
    /\ \E run \in ToolRuns :
          /\ temp_exc' = ToolException(run)
          /\ fpc' = IF run = "zero" /\ temp_call.op = "extract" THEN "read"
                    ELSE "finally"
    /\ UNCHANGED <<temp_call, temp_file, temp_lines, temp_made>>
    /\ UNCHANGED exceptTemp

\* extract_chapters: the file is read and parsed, inside the try block
TempRead ==
    /\ fpc = "read"
    /\ \E exc \in {"", "UnicodeDecodeError"} : temp_exc' = exc
    /\ fpc' = "finally"
    /\ UNCHANGED <<temp_call, temp_file, temp_lines, temp_made>>
    /\ UNCHANGED exceptTemp

\* finally: the file is removed if it exists; the operation returns or the
\* exception goes on
TempFinally ==
    /\ fpc = "finally"
    /\ temp_file' = FALSE
    /\ fpc' = "done"
    /\ UNCHANGED <<temp_call, temp_lines, temp_made, temp_exc>>
    /\ UNCHANGED exceptTemp

TempNext ==
    \/ TempStart
    \/ TempWith
    \/ TempOpen
    \/ TempWriteLine
    \/ TempTool
    \/ TempRead
    \/ TempFinally

SpecTemp == TempInit /\ [][TempNext]_vars

(***************************************************************************)
(* The log of a batch run with a thread pool.  Every logger call is one    *)
(* step: logging.Handler.handle holds the lock of the handler for one      *)
(* record, and nothing in batch_process.py holds a lock over the calls     *)
(* made for one container.                                                 *)
(***************************************************************************)
\* the logger calls process_single_file makes for one container: three
\* logger.info before the constructor, then logger.info after process, or
\* the two logger.error of the except clause
LoggerCalls(o) ==
    <<"info:banner", "info:start", "info:banner">>
        \o (IF o.raised THEN <<"error:failed", "error:traceback">>
            ELSE <<"info:done">>)

LogInit ==
    /\ lpc = "idle"
    /\ log_cfg \in [n : 1..MaxLogFiles, max_workers : 2..MaxLogWorkers]
    /\ log_waiting = << >>
    /\ log_threads = << >>
    /\ log = << >>
    /\ OffButLog

\* executor.submit for every container, in the order of the list
LogSubmit ==
    /\ lpc = "idle"
    /\ log_waiting' = SubSeq(BatchFiles, 1, log_cfg.n)
    /\ lpc' = "pool"
    /\ UNCHANGED <<log_cfg, log_threads, log>>
    /\ UNCHANGED exceptLog

\* a free pool thread starts process_single_file on the next container
LogTake ==
    /\ lpc = "pool"
    /\ log_waiting # << >>
    /\ Cardinality(DOMAIN log_threads) < log_cfg.max_workers
    /\ \E o \in TryBlockOutcomes :
          log_threads' = [f \in DOMAIN log_threads \cup {Head(log_waiting)} |->
                            IF f = Head(log_waiting) THEN LoggerCalls(o)
                            ELSE log_threads[f]]
    /\ log_waiting' = Tail(log_waiting)
    /\ UNCHANGED <<lpc, log_cfg, log>>
    /\ UNCHANGED exceptLog

\* the thread of container f makes its next logger call
LogEmit ==
    /\ lpc = "pool"
    /\ \E f \in DOMAIN log_threads :
          /\ log_threads[f] # << >>
          /\ log' = Append(log, [file |-> f, line |-> Head(log_threads[f])])
          /\ log_threads' = [log_threads EXCEPT ![f] = Tail(@)]
    /\ UNCHANGED <<lpc, log_cfg, log_waiting>>
    /\ UNCHANGED exceptLog

\* process_single_file returns; the thread is free again
LogFinish ==
    /\ lpc = "pool"
    /\ \E f \in DOMAIN log_threads :
          /\ log_threads[f] = << >>
          /\ log_threads' = [g \in DOMAIN log_threads \ {f} |-> log_threads[g]]
    /\ UNCHANGED <<lpc, log_cfg, log_waiting, log>>
    /\ UNCHANGED exceptLog

\* the with block of the executor ends
LogReturn ==
    /\ lpc = "pool"
    /\ log_waiting = << >>
    /\ DOMAIN log_threads = {}
    /\ lpc' = "returned"
    /\ UNCHANGED <<log_cfg, log_waiting, log_threads, log>>
    /\ UNCHANGED exceptLog

LogNext ==
    \/ LogSubmit
    \/ LogTake
    \/ LogEmit
    \/ LogFinish
    \/ LogReturn

SpecLog == LogInit /\ [][LogNext]_vars

(***************************************************************************)
(* Properties.                                                             *)
(***************************************************************************)
\* some in-memory title differs from the title that was extracted
SomeTitleChanged ==
    \E i \in 1..Len(chapters) : chapters[i].title # extracted[i].title

\* the chapter's audio extraction or recognition failed: a short buffer, a
\* non-zero exit of the decode tool, or no song returned
Failed(o) == o.audio \in {"short", "nonzero"} \/ o.rec.kind # "match"

\* C1: in a sequence of process runs that all had the backup enabled (every
\* run started so far has completed its backup), the sidecar holds the
\* chapters, and so the titles, the container had before the first run.
C1_SidecarKeepsOriginal ==
    (backups >= 1 /\ backups = runs) => sidecar = Some(BackupText(original))

\* C2: process calls update_chapters only if some chapter's title after
\* recognition differs from the title that was extracted.
C2_WriteOnlyOnChange ==
    (op = "process" /\ tool_calls > 0) => SomeTitleChanged

\* C3: in a run of process in which no chapter's recognition has succeeded,
\* the metadata-write tool has not been invoked and nothing was handed to it.
C3_NoRecognitionNoWrite ==
    (op = "process" /\ \A i \in 1..Len(outcome) : Failed(outcome[i]))
        => (tool_calls = 0 /\ written = None)

C3_Witness ==
    /\ op = "process" /\ pc = "finished" /\ result = "no_update"
    /\ Len(outcome) = Len(chapters)
    /\ \E i, j \in 1..Len(outcome) :
          /\ outcome[i].audio = "short"
          /\ outcome[j].audio = "samples" /\ outcome[j].rec.kind = "nomatch"

\* C4: in every step of a run of process, each chapter attempted so far
\* whose extraction or recognition failed has its extracted title, each
\* recognized chapter has its rendered title, the chapters not yet attempted
\* are untouched; a failed chapter leaves the loop at the next chapter; and
\* the loop, once over all chapters with some chapter recognized, goes on to
\* the write of all the chapters.
C4_FailureIsolation ==
    [][ op' = "process" =>
          /\ \A i \in 1..Len(chapters') :
                chapters'[i].title =
                    IF i > Len(outcome') \/ Failed(outcome'[i])
                    THEN extracted'[i].title
                    ELSE TemplateFormat(template', outcome'[i].rec.song).text
          /\ (Len(outcome') = Len(outcome) + 1 /\ op = "process")
                => (pc' = "recognize" /\ idx' = Len(outcome') + 1 /\ result' = "")
          /\ (pc = "recognize" /\ idx > Len(chapters) /\ pc' = "finished"
                /\ result' # "KeyboardInterrupt"
                /\ \E i \in 1..Len(outcome) : ~Failed(outcome[i]))
                => (tool_calls' = 1 /\ written' = Some(chapters))
      ]_vars

C4_Witness ==
    /\ op = "process" /\ pc = "finished" /\ result = "committed"
    /\ Len(outcome) = Len(chapters)
    /\ \E i, j \in 1..Len(outcome) :
          /\ i < j
          /\ outcome[i].audio = "short"
          /\ chapters[i].title = extracted[i].title
          /\ outcome[j].rec.kind = "match"
          /\ chapters[j].title # extracted[j].title

\* C5: in a run of process with the backup enabled, whenever some in-memory
\* title differs from its extracted value the sidecar holds, completely
\* written, the chapter sequence as extracted; also when the run has been
\* interrupted or has raised.
C5_BackupBeforeMutation ==
    (op = "process" /\ backup /\ SomeTitleChanged)
        => sidecar = Some(BackupText(extracted))

C5_Witness ==
    /\ op = "process" /\ backup /\ SomeTitleChanged
    /\ pc = "finished" /\ result = "KeyboardInterrupt" /\ tool_calls = 0

\* C6: _parse_chapter_xml(_generate_chapter_xml(cs)) has the length of cs and,
\* chapter by chapter, its uid, start time, end time and title.
C6_XmlRoundTrip ==
    cpc = "decoded" =>
        /\ Len(decoded) = Len(cs)
        /\ \A i \in 1..Len(cs) :
              /\ decoded[i].uid = cs[i].uid
              /\ decoded[i].start_time = cs[i].start_time
              /\ decoded[i].end_time = cs[i].end_time
              /\ decoded[i].title = cs[i].title

\* C7: the chapter file restore_from_backup writes carries the uid, start
\* time, end time and title of every chapter: no chapter sequence that
\* differs in one of them yields the same file.
C7_RestoreDocumentCarriesChapters ==
    cpc = "emitted" =>
        \A other \in SeqsUpTo(CodecChapter, MaxCodecChapters) :
            RestoreDocument(PyChapters(other)) = restore_doc
                => /\ Len(other) = Len(cs)
                   /\ \A i \in 1..Len(cs) :
                         /\ other[i].uid = cs[i].uid
                         /\ other[i].start_time = cs[i].start_time
                         /\ other[i].end_time = cs[i].end_time
                         /\ other[i].title = cs[i].title

\* C8: for a non-empty chapter sequence, the chapters restore_from_backup
\* rebuilds from the sidecar _backup_chapters wrote are the same in number
\* and order, each with the same uid, start time, end time and title.
C8_BackupRestoreRoundTrip ==
    (cpc \in {"loaded", "emitted"} /\ cs # << >>) =>
        /\ restored.ok
        /\ Len(restored.chapters) = Len(cs)
        /\ \A i \in 1..Len(cs) :
              /\ restored.chapters[i].uid = PyStr(cs[i].uid)
              /\ restored.chapters[i].start_time = PyStr(cs[i].start_time)
              /\ restored.chapters[i].end_time = PyOpt(cs[i].end_time)
              /\ restored.chapters[i].title = PyStr(cs[i].title)

C8_Witness ==
    /\ cpc = "loaded" /\ restored.ok
    /\ Len(cs) = MaxCodecChapters
    /\ \E i, j \in 1..Len(cs) :
          /\ cs[i].end_time = None /\ cs[i].title = << >>
          /\ cs[j].end_time # None /\ Contains(cs[j].title, "\"")

\* a chapter record of the sidecar format: uid, start_time and title are
\* strings, end_time is a string or null
WellFormedEntry(data) ==
    /\ data.t = "dict"
    /\ HasKey(data, K_uid) /\ DictGet(data, K_uid).t = "str"
    /\ HasKey(data, K_start_time) /\ DictGet(data, K_start_time).t = "str"
    /\ HasKey(data, K_title) /\ DictGet(data, K_title).t = "str"
    /\ HasKey(data, K_end_time) => DictGet(data, K_end_time).t \in {"str", "none"}

\* the sidecar is present, parses, and is a non-empty list of chapter records
WellFormedBackup(file) ==
    /\ file # None
    /\ LET loaded == JsonLoad(file[1])
       IN  IF ~loaded.ok THEN FALSE
           ELSE IF loaded.v.t # "list" THEN FALSE
           ELSE /\ loaded.v.v # << >>
                /\ \A i \in 1..Len(loaded.v.v) : WellFormedEntry(loaded.v.v[i])

\* C9: when the sidecar is absent, does not parse, holds no chapters or holds
\* an entry that is no chapter record, restore_from_backup never invokes the
\* metadata-write tool, leaves the container alone and ends with an error.
C9_InvalidBackupRejected ==
    (op = "restore" /\ ~WellFormedBackup(sidecar)) =>
        /\ tool_calls = 0
        /\ written = None
        /\ container = original
        /\ pc = "finished" =>
              result \in {"FileNotFoundError", "ValueError", "KeyError", "TypeError"}

\* C10: calculate_sample_time is the reference: start + offset; the midpoint
\* less half the duration; the later of the start and end - duration - 5; the
\* start plus the percentage of the length; the end being start + 180 exactly
\* when it is unknown.  The four worked examples are among the inputs.
C10_SampleTimeReference ==
    spc = "done" =>
        LET c == sample_in.cfg
            s == sample_in.chapter_start
            e == IF sample_in.chapter_end = None THEN s + 180 * Ticks
                 ELSE sample_in.chapter_end[1]
            late == e - (c.duration + 5) * Ticks
            t == sample_time
        IN  /\ c.strategy = "start" => t = s + c.offset
            /\ c.strategy = "middle" => 2 * t = s + e - c.duration * Ticks
            /\ c.strategy = "end" => (t >= s /\ t >= late /\ t \in {s, late})
            /\ c.strategy = "custom" => 1000 * (t - s) = (e - s) * c.percentage
            /\ (c.strategy = "start" /\ c.offset = 5 * Ticks /\ s = 10 * Ticks)
                  => t = 15 * Ticks
            /\ (c.strategy = "middle" /\ s = 0 /\ c.duration = 3
                  /\ sample_in.chapter_end = Some(60 * Ticks))
                  => 2 * t = 57 * Ticks
            /\ (c.strategy = "end" /\ s = 0 /\ c.duration = 3
                  /\ sample_in.chapter_end = Some(60 * Ticks))
                  => t = 52 * Ticks
            /\ (c.strategy = "custom" /\ s = 0 /\ c.percentage = 300
                  /\ sample_in.chapter_end = Some(100 * Ticks))
                  => t = 30 * Ticks

C10_Witness ==
    /\ spc = "done"
    /\ sample_in.cfg.strategy = "middle" /\ sample_in.cfg.duration = 3
    /\ sample_in.chapter_start = 0
    /\ sample_in.chapter_end = Some(60 * Ticks)
    /\ 2 * sample_time = 57 * Ticks

\* C11: for a valid input (the end absent or not before the start; the
\* inputs have offset >= 0, percentage in [0, 1], duration >= 1) the sample
\* time calculate_sample_time returns is not before the start of the chapter.
C11_SampleNotBeforeStart ==
    (/\ spc = "done"
     /\ sample_in.chapter_end # None
           => sample_in.chapter_end[1] >= sample_in.chapter_start
     /\ sample_in.cfg.offset >= 0
     /\ sample_in.cfg.percentage \in 0..1000
     /\ sample_in.cfg.duration >= 1)
        => sample_time >= sample_in.chapter_start

\* C12: for the configured duration d, the extraction asks the decode tool
\* for d seconds, returns samples exactly when the tool succeeded with at
\* least SAMPLERATE * d * 4 bytes, and then returns SAMPLERATE * d samples.
C12_WindowFollowsDuration ==
    apc = "done" =>
        LET d == audio_call.configured
        IN  /\ audio_call.window = d
            /\ audio_call.samples # None
                  <=> (audio_call.returncode = 0
                       /\ audio_call.buffer_len >= SAMPLERATE * d * 4)
            /\ audio_call.samples # None
                  => audio_call.samples[1] = SAMPLERATE * d

\* a text has two white space symbols in a row
HasDoubleSpace(s) ==
    \E i \in 1..(Len(s) - 1) : s[i] \in Whitespace /\ s[i + 1] \in Whitespace

\* a text has an opening bracket closed with nothing but white space inside
HasEmptyBrackets(s) ==
    \E i \in 1..Len(s) :
        /\ s[i] \in {FullwidthOpen, "("}
        /\ WsEnd(s, i + 1) <= Len(s)
        /\ s[WsEnd(s, i + 1)] \in {FullwidthClose, ")"}

\* a text ends with a dash
HasTrailingDash(s) == s # << >> /\ s[Len(s)] = "-"

\* C13: when the template has {trans_name} and the song has no translated
\* name, format returns a title without an empty bracket pair, a doubled
\* space or a trailing dash; the preset with_trans with the name "X" and the
\* artists "A, B" gives exactly "X - A, B".
C13_EmptyTransNameRemoved ==
    (/\ tpc = "done"
     /\ Contains(format_call.tpl, "{trans_name}")
     /\ SongGet(format_call.song_info, "transName", << >>) = << >>)
        => /\ format_call.result.ok
                => /\ ~HasEmptyBrackets(format_call.result.text)
                   /\ ~HasDoubleSpace(format_call.result.text)
                   /\ ~HasTrailingDash(format_call.result.text)
           /\ (/\ format_call.tpl = PresetTemplate("with_trans")
               /\ format_call.song_info.name = Some(<<"X">>)
               /\ format_call.song_info.artists = Some(<<"A", ",", " ", "B">>))
                 => /\ format_call.result.ok
                    /\ format_call.result.text
                          = <<"X", " ", "-", " ", "A", ",", " ", "B">>

\* C14: for a template with a replacement field outside the seven tokens,
\* format raises nothing and returns the bare name of the song, or "Unknown"
\* when the song has no name.
C14_UnknownFieldFallsBack ==
    (/\ tpc = "done"
     /\ \E i \in 1..Len(format_call.tpl) :
           format_call.tpl[i] \in UnknownFields \cup PositionalFields)
        => /\ format_call.result.ok
           /\ format_call.result.text
                 = SongGet(format_call.song_info, "name", TitleUnknown)

\* the containers process_directory found
FoundFiles == {mkv_files[i] : i \in 1..Len(mkv_files)}

\* the sidecar of f existed when the run started: it exists and no call of
\* this run wrote it
ExistedAtStart(f) ==
    /\ f \in sidecars
    /\ ~\E i \in 1..Len(attempts) : attempts[i].file = f /\ attempts[i].o.wrote

\* the pipeline (MKVAutoRename.process) was run on f
HandedToPipeline(f) ==
    \E i \in 1..Len(attempts) : attempts[i].file = f /\ attempts[i].o.called

\* C15: when a batch run has returned, the pipeline was run on a discovered
\* container if and only if it is not the case that skip_existing is on and
\* the sidecar of the container existed; so a container whose sidecar exists
\* gets no recognition call from a run with skip_existing on.
C15_SkipRule ==
    bpc = "returned" =>
        \A f \in FoundFiles :
            HandedToPipeline(f)
                <=> ~(batch_cfg.skip_existing /\ ExistedAtStart(f))

\* C16: process_directory does not raise because of a container; when it has
\* returned, every container that was not skipped was processed once, the
\* ones whose processing raised are counted once as failed, and
\* total = skipped + success + failed.
C16_BatchFailuresCounted ==
    /\ bpc # "raised"
    /\ bpc = "returned" =>
          LET todo == {f \in FoundFiles :
                          ShouldProcess(batch_cfg.skip_existing, ExistedAtStart(f))}
          IN  /\ stats.total = stats.skipped + stats.success + stats.failed
              /\ stats.total = Len(mkv_files)
              /\ stats.failed
                    = Cardinality({i \in 1..Len(attempts) : attempts[i].o.raised})
              /\ {attempts[i].file : i \in 1..Len(attempts)} = todo
              /\ Len(attempts) = Cardinality(todo)

\* a run returned after two containers failed, in a pool of two threads
C16_Witness ==
    /\ bpc = "returned"
    /\ batch_cfg.max_workers = 2
    /\ stats.failed >= 2
    /\ stats.skipped >= 1

\* C17: when the external call made for chapter i never returns, chapter i
\* is eventually marked unrecognized and the loop goes through the chapters
\* after it to its end, in process and in the RecognitionWorker.
C17_HungCallTimesOut ==
    \A i \in 1..MaxCallChapters :
        (kpc \in CallsInFlight /\ ki = i /\ hung)
            ~> (kpc = "done" /\ Len(marks) >= i /\ marks[i] = "unrecognized")

\* C18: once the user has cancelled the run, no chapter that had not begun
\* begins (no recognition call is started for it), finished_all is not
\* emitted and update_chapters is not called.
C18_NoWorkAfterCancel ==
    [][cancelled => /\ begun' = begun
                    /\ finished_all' = finished_all
                    /\ writes' = writes]_vars

\* C19: for a document that is not a document of the chapter schema,
\* extract_chapters reports an error and the run fails; the run ends with
\* nothing to do only for a schema document without chapters.
C19_MalformedDocumentRejected ==
    (dpc = "done" /\ extract_rc = 0) =>
        /\ document \notin SchemaDocuments
              => (~extract_result.ok /\ run_result \notin {"nothing_to_do", "goes_on"})
        /\ run_result = "nothing_to_do"
              => document = MkvextractDocument(<< >>)

\* the command line gives a value for the key and the file a different one
CliOverFile(key) ==
    /\ cli_given[key] # None
    /\ file_config[key] # None
    /\ cli_given[key] # file_config[key]

\* C20: when the command line gives a value for a key and the configuration
\* file a different one, the merged configuration the run uses has the value
\* of the command line: for the strategy, the offset, the duration, the
\* ffmpeg path, no_backup, and for the template also against the
\* custom_template of the file.
C20_CommandLineWins ==
    mpc = "merged" =>
        /\ \A key \in {"strategy", "offset", "duration", "ffmpeg", "no_backup"} :
              CliOverFile(key) => merged_config[key] = cli_given[key][1]
        /\ (cli_given.template # None
              /\ (file_config.template # None \/ file_config.custom_template # None))
                 => used_template = cli_given.template[1]

\* the operation was called and ended in success or with nothing to update
RunSucceeded ==
    /\ (IF main_in.restore THEN RestoreBranch(main_in) ELSE NormalBranch(main_in))
          = "call"
    /\ main_in.ends \in {"success", "nothing"}

\* C21: main exits with code 0 exactly when the run succeeded or ended with
\* nothing to update, in the normal mode and in the restore mode; every
\* other end (no container path, no tool, an error of the operation) gives a
\* code other than 0.
C21_ExitCodeTellsSuccess ==
    epc = "exited" => (exit_code = 0 <=> RunSucceeded)

\* C22: a run of process whose extraction gives zero chapters is over at
\* once with nothing to do: in every step that leaves such a run in place no
\* sidecar is written, no chapter is sampled or recognized, and the write
\* tool is not called.
C22_NoChaptersNothingDone ==
    [][(op' = "process" /\ extracted' = << >> /\ result' # "RuntimeError")
         => /\ pc' = "finished" /\ result' = "nothing"
            /\ sidecar' = sidecar /\ backups' = backups
            /\ outcome' = << >> /\ updated_count' = 0
            /\ tool_calls' = 0 /\ written' = None
            /\ container' = container]_vars

\* a run with the backup asked for, on a container without chapters, is over
C22_Witness ==
    /\ op = "process" /\ backup /\ extracted = << >>
    /\ pc = "finished" /\ result = "nothing"
    /\ sidecar = None /\ tool_calls = 0

\* the template holds a field that is none of the seven the format method
\* provides
ReferencesUnknownToken(tpl) ==
    \E i \in 1..Len(tpl) : tpl[i] \in UnknownFields \cup PositionalFields

\* C23: a template with an unknown token is rejected before any destructive
\* work: a run of process with such a template never writes the sidecar
\* backup and never calls the write tool.
C23_UnknownTokenBeforeWork ==
    [][(op' = "process" /\ ReferencesUnknownToken(template'))
         => (sidecar' = sidecar /\ tool_calls' = 0)]_vars

\* chapter i of the run was recognized and the rendering of its title failed
RenderFailed(i) ==
    /\ Len(outcome) >= i
    /\ outcome[i].rec.kind = "match"
    /\ ReferencesUnknownToken(template)

\* C24: when the rendering of the title of a recognized chapter fails (a
\* token outside the set, or the formatting raises), the chapter keeps its
\* extracted title, it is not counted as changed, and the run goes on with
\* the next chapter instead of ending with an exception.
C24_RenderFailureKeepsTitle ==
    /\ (op = "process" /\ result \in {"KeyError", "IndexError", "ValueError"})
          => ~ReferencesUnknownToken(template)
    /\ op = "process" =>
          \A i \in 1..Len(outcome) :
             RenderFailed(i) =>
                /\ chapters[i].title = extracted[i].title
                /\ updated_count <=
                      Cardinality({k \in 1..Len(outcome) :
                                     outcome[k].rec.kind = "match" /\ ~RenderFailed(k)})

\* C25: a decode tool that cannot be started for chapter i is recovered at
\* the chapter boundary: the run of process does not end with the
\* FileNotFoundError of the missing executable while chapters are left, it
\* goes on with chapter i+1.
C25_MissingDecoderRecovered ==
    ~(op = "process" /\ pc = "finished" /\ result = "FileNotFoundError"
      /\ idx <= Len(chapters))

\* C26: every call of process_single_file builds the renamer and runs
\* process(backup=True) once, and when the batch run has returned the
\* containers whose pipeline ended without an error are the ones counted as
\* succeeded.
C26_PipelineRunOncePerContainer ==
    /\ \A i \in 1..Len(attempts) : attempts[i].o.called
    /\ bpc = "returned" =>
          stats.success
             = Cardinality({i \in 1..Len(attempts) :
                              attempts[i].o.called /\ ~attempts[i].o.raised})

\* C27: process changes nothing but titles: the list handed to
\* update_chapters has the length and the order of the extracted list, and
\* every uid, start and end in it is the extracted one; a chapter extracted
\* without an end is handed over without an end.
C27_OnlyTitlesChange ==
    (op = "process" /\ written # None) =>
        /\ Len(written[1]) = Len(extracted)
        /\ \A i \in 1..Len(extracted) :
              /\ written[1][i].uid = extracted[i].uid
              /\ written[1][i].start_time = extracted[i].start_time
              /\ written[1][i].end_time = extracted[i].end_time

\* two chapters were handed to update_chapters: one with a new title and
\* without an end, the other one with its extracted title
C27_Witness ==
    /\ op = "process" /\ written # None
    /\ Len(extracted) = 2
    /\ \E i, j \in 1..2 :
          /\ written[1][i].title # extracted[i].title
          /\ extracted[i].end_time = None
          /\ written[1][j].title = extracted[j].title

\* C28: when extract_chapters, update_chapters or the write of
\* restore_from_backup is over, by a return or by an exception, and it had
\* created its temporary chapter file, the file does not exist any more.
C28_TempFileRemoved ==
    (fpc = "done" /\ temp_made) => ~temp_file

\* C29: in a batch run with max_workers > 1 the log lines of one container
\* are contiguous: no line of another container stands between two lines of
\* the same container.
C29_LogNotInterleaved ==
    \A i, k \in 1..Len(log) :
        (i < k /\ log[i].file = log[k].file) =>
            \A j \in i..k : log[j].file = log[i].file

\* the containers the run has handed to process_single_file so far or still
\* has to, in the order of the run
RunOrder == [i \in 1..Len(attempts) |-> attempts[i].file] \o waiting

\* C30: at most max_workers containers are in flight at any time; with
\* max_workers = 1 the containers are processed one after the other in the
\* order they were found; and the counters are changed by the thread of
\* process_directory only, one result at a time, so that every result that
\* thread has collected is counted.
C30_BoundedAndOrdered ==
    /\ [](bpc \in {"serial", "pool"} =>
            /\ Cardinality(inflight) <= batch_cfg.max_workers
            /\ batch_cfg.max_workers = 1 =>
                  /\ inflight = {}
                  /\ RunOrder
                        = SelectSeq2(mkv_files, {RunOrder[i] : i \in 1..Len(RunOrder)})
            /\ stats.success + stats.failed = Len(attempts) - Len(completed))
    /\ [][(stats' # stats /\ bpc \in {"serial", "pool"}) =>
            /\ stats'.success + stats'.failed = stats.success + stats.failed + 1
            /\ inflight' = inflight]_vars

\* two containers are in flight in a pool of two threads while a third one
\* waits, and one result has been counted
C30_Witness ==
    /\ bpc = "pool"
    /\ batch_cfg.max_workers = 2
    /\ Cardinality(inflight) = 2
    /\ stats.success + stats.failed >= 1

====
